---- MODULE Spec2Model ----
(***************************************************************************)
(* Sidecar metadata store of the dance-steps plugin: the vault, saveMeta   *)
(* (view.tsx), upsertSidecarMetadata and the sidecar lookup of             *)
(* scanDanceSteps (repo.ts).                                                *)
(*                                                                         *)
(* Text is modelled as it is stored: a string is a sequence of code points *)
(* (each named by a TLA+ string: "a", "A", " ", "!", "E_ACUTE" for U+00E9, *)
(* "COMB_ACUTE" for U+0301), a file's text is the sequence of its lines    *)
(* (text.split("\n")), and a path is parent folder, basename, extension.   *)
(***************************************************************************)
EXTENDS Integers, Sequences, FiniteSets, TLC

(***************************************************************************)
(* Bounds                                                                  *)
(***************************************************************************)
\* number of saveMeta / upsertSidecarMetadata calls in one behaviour
MaxOps == 2

(***************************************************************************)
(* Code points and strings                                                 *)
(***************************************************************************)
Digits == <<"0", "1", "2", "3", "4", "5", "6", "7", "8", "9">>

DigitSet == {Digits[i] : i \in 1..10}

LowerSet == {"a", "b", "c", "d", "e", "i", "l", "n", "o", "s", "u", "v", "x"}

UpperSet == {"A", "B", "C", "N", "S"}

\* [a-zA-Z0-9]
IsAlnum(c) == c \in LowerSet \cup UpperSet \cup DigitSet

\* String.prototype.toLowerCase on one code point
ToLower(c) ==
  CASE c = "A" -> "a"
    [] c = "B" -> "b"
    [] c = "C" -> "c"
    [] c = "N" -> "n"
    [] c = "S" -> "s"
    [] OTHER -> c

\* String.prototype.normalize("NFKD") on one code point
NFKD(c) == IF c = "E_ACUTE" THEN <<"e", "COMB_ACUTE">> ELSE <<c>>

\* the combining marks U+0300..U+036F
IsCombining(c) == c = "COMB_ACUTE"

IsSpace(c) == c = " "

RECURSIVE DropWhileHead(_, _)
\* s without its longest prefix of code points in set cs
DropWhileHead(s, cs) ==
  IF s # <<>> /\ Head(s) \in cs THEN DropWhileHead(Tail(s), cs) ELSE s

RECURSIVE DropWhileLast(_, _)
\* s without its longest suffix of code points in set cs
DropWhileLast(s, cs) ==
  IF s # <<>> /\ s[Len(s)] \in cs
    THEN DropWhileLast(SubSeq(s, 1, Len(s) - 1), cs)
    ELSE s

\* String.prototype.trim
Trim(s) == DropWhileLast(DropWhileHead(s, {" "}), {" "})

RECURSIVE FlatMapNFKD(_)
FlatMapNFKD(s) ==
  IF s = <<>> THEN <<>> ELSE NFKD(Head(s)) \o FlatMapNFKD(Tail(s))

\* .replace(/[^a-zA-Z0-9]+/g, "-"): every maximal run of non-alphanumerics
\* becomes one dash
RECURSIVE DashRuns(_, _)
DashRuns(s, inRun) ==
  IF s = <<>> THEN <<>>
  ELSE IF IsAlnum(Head(s)) THEN <<Head(s)>> \o DashRuns(Tail(s), FALSE)
  ELSE IF inRun THEN DashRuns(Tail(s), TRUE)
  ELSE <<"-">> \o DashRuns(Tail(s), TRUE)

\* .replace(/^-+|-+$/g, "")
TrimDashes(s) == DropWhileLast(DropWhileHead(s, {"-"}), {"-"})

\* slug (view.tsx): trim, NFKD, strip accents, dash runs, trim dashes, lower
slug(input) ==
  LET s == Trim(input)
  IN IF s = <<>> THEN <<>>
     ELSE LET a == SelectSeq(FlatMapNFKD(s), LAMBDA c : ~IsCombining(c))
              d == TrimDashes(DashRuns(a, FALSE))
          IN [i \in 1..Len(d) |-> ToLower(d[i])]

\* normalizeTag (repo.ts): trim, dash runs, trim dashes
normalizeTag(s) == TrimDashes(DashRuns(Trim(s), FALSE))

RECURSIVE NumStr(_)
\* String(n) for a non-negative integer: its decimal digits
NumStr(n) ==
  IF n < 10 THEN <<Digits[n + 1]>>
  ELSE NumStr(n \div 10) \o <<Digits[(n % 10) + 1]>>

DigitVal(c) == CHOOSE i \in 0..9 : Digits[i + 1] = c

RECURSIVE StrNum(_)
\* the number a non-empty digit string denotes
StrNum(s) ==
  IF Len(s) = 1 THEN DigitVal(s[1])
  ELSE 10 * StrNum(SubSeq(s, 1, Len(s) - 1)) + DigitVal(s[Len(s)])

(***************************************************************************)
(* Sidecar text: lines, YAML scalars, frontmatter records                  *)
(***************************************************************************)
\* One line of a file. t is the shape of the line:
\*   "delim"  the line ---
\*   "kv"     the line <k>: <v>
\*   "bad"    a line no YAML mapping can contain (parseYaml throws on it)
\*   "tag"    the line #DanceLibrary, followed by " #<v>" when v is not empty
\*   "text"   any other non-empty line, with text v
\*   "empty"  the empty line
Line(t, k, v) == [t |-> t, k |-> k, v |-> v]

Delim == Line("delim", "", <<>>)

Empty == Line("empty", "", <<>>)

TagLine(tag) == Line("tag", "", tag)

Kv(k, v) == Line("kv", k, v)

TextLine(v) == Line("text", "", v)

Bad == Line("bad", "", <<>>)

\* A parsed YAML value: null, a number, a string, or a sequence of one string
\* (s is then the text of its element)
Null == [ty |-> "null", n |-> 0, s |-> <<>>]

Num(n) == [ty |-> "num", n |-> n, s |-> <<>>]

Str(s) == [ty |-> "str", n |-> 0, s |-> s]

List(item) == [ty |-> "list", n |-> 0, s |-> item]

NullText == <<"n", "u", "l", "l">>

\* the scalar text is a flow sequence [<item>]
IsFlowSeq(s) == Len(s) >= 2 /\ s[1] = "[" /\ s[Len(s)] = "]"

IsNumeric(s) == s # <<>> /\ \A i \in 1..Len(s) : s[i] \in DigitSet

\* the value parseYaml gives the scalar written after "<k>: "
ParseScalar(text) ==
  LET s == Trim(text)
  IN IF s = <<>> \/ s = NullText THEN Null
     ELSE IF IsNumeric(s) THEN Num(StrNum(s))
     ELSE IF IsFlowSeq(s) THEN List(Trim(SubSeq(s, 2, Len(s) - 1)))
     ELSE Str(s)

\* String(v); an array gives its elements joined by ","
JsString(v) ==
  CASE v.ty = "null" -> NullText
    [] v.ty = "num" -> NumStr(v.n)
    [] OTHER -> v.s

\* A frontmatter object: its entries [k, v] in insertion order
FmHas(fm, k) == \E i \in 1..Len(fm) : fm[i].k = k

FmGet(fm, k) == fm[CHOOSE i \in 1..Len(fm) : fm[i].k = k].v

\* fm[k] = v: an existing key keeps its place, a new key goes last
FmSet(fm, k, v) ==
  IF FmHas(fm, k)
    THEN [i \in 1..Len(fm) |-> IF fm[i].k = k THEN [k |-> k, v |-> v] ELSE fm[i]]
    ELSE Append(fm, [k |-> k, v |-> v])

\* delete fm[k]
FmDel(fm, k) == SelectSeq(fm, LAMBDA e : e.k # k)

\* typeof fm[k] === "string"
FmIsStr(fm, k) == FmHas(fm, k) /\ FmGet(fm, k).ty = "str"

RECURSIVE YamlEntries(_)
YamlEntries(ls) ==
  IF ls = <<>> THEN <<>>
  ELSE LET rest == YamlEntries(SubSeq(ls, 1, Len(ls) - 1))
           l == ls[Len(ls)]
       IN IF l.t = "kv" THEN FmSet(rest, l.k, ParseScalar(l.v)) ELSE rest

\* parseYaml on the lines between the delimiters: it throws on a line that is
\* no mapping entry; comment lines (#...) and empty lines carry nothing; a
\* document without entries is null, which is no record
parseYaml(ls) ==
  IF \E i \in 1..Len(ls) : ls[i].t \in {"bad", "text", "delim"}
    THEN [threw |-> TRUE, isRecord |-> FALSE, fm |-> <<>>]
    ELSE [threw |-> FALSE,
          isRecord |-> \E i \in 1..Len(ls) : ls[i].t = "kv",
          fm |-> YamlEntries(ls)]

\* content.startsWith("---")
StartsWithDelim(content) == content[1].t = "delim"

\* content.indexOf("\n---", 3) as a line number; 0 when there is none
ClosingDelim(content) ==
  IF \E j \in 2..Len(content) : content[j].t = "delim"
    THEN CHOOSE j \in 2..Len(content) :
           /\ content[j].t = "delim"
           /\ \A i \in 2..(j - 1) : content[i].t # "delim"
    ELSE 0

\* content.slice(end + 4): what follows the closing ---, starting with the
\* (empty) rest of the delimiter's own line
AfterClosing(content, j) == <<Empty>> \o SubSeq(content, j + 1, Len(content))

(***************************************************************************)
(* upsertSidecarMetadata: the text it writes                               *)
(***************************************************************************)
\* A patch (the meta argument): keys is the set of fields that are not
\* undefined, the other fields hold their values
Meta(keys, stepName, description, dance, style, danceStyle, class, classLevel, playCount) ==
  [keys |-> keys, stepName |-> stepName, description |-> description,
   dance |-> dance, style |-> style, danceStyle |-> danceStyle,
   class |-> class, classLevel |-> classLevel, playCount |-> playCount]

Max(a, b) == IF a >= b THEN a ELSE b

\* What upsertSidecarMetadata holds after reading the existing sidecar:
\* the parsed frontmatter and fm.__body (hasBody: whether it was set).
\* readFailed: vault.read threw, which the catch swallows.
ReadExisting(content, readFailed) ==
  LET nothing == [fm |-> <<>>, hasBody |-> FALSE, body |-> <<Empty>>]
  IN IF readFailed THEN nothing
     ELSE IF StartsWithDelim(content)
       THEN LET end == ClosingDelim(content)
            IN IF end > 0
                 THEN LET parsed == parseYaml(SubSeq(content, 2, end - 1))
                      IN IF parsed.threw THEN nothing
                         ELSE [fm |-> IF parsed.isRecord THEN parsed.fm ELSE <<>>,
                               hasBody |-> TRUE,
                               body |-> AfterClosing(content, end)]
                 ELSE nothing
       ELSE [fm |-> <<>>, hasBody |-> TRUE, body |-> content]

\* "apply updates": the patch's fields over the parsed frontmatter
ApplyPatch(fm, meta) ==
  LET f1 == IF "stepName" \in meta.keys THEN FmSet(fm, "stepName", Str(meta.stepName)) ELSE fm
      f2 == IF "description" \in meta.keys THEN FmSet(f1, "description", Str(meta.description)) ELSE f1
      f3 == IF "dance" \in meta.keys THEN FmSet(f2, "dance", Str(meta.dance)) ELSE f2
      f4 == IF "danceStyle" \in meta.keys
              THEN FmSet(FmSet(f3, "style", Str(meta.danceStyle)), "danceStyle", Str(meta.danceStyle))
              ELSE f3
      \* cls = meta.class ?? meta.classLevel
      f5 == IF "class" \in meta.keys THEN FmSet(f4, "class", Str(meta.class))
            ELSE IF "classLevel" \in meta.keys THEN FmSet(f4, "class", Str(meta.classLevel))
            ELSE f4
  IN IF "playCount" \in meta.keys THEN FmSet(f5, "playCount", Num(Max(0, meta.playCount))) ELSE f5

\* the managed hashtag line for the frontmatter's dance
TagsLineOf(fm) ==
  IF FmIsStr(fm, "dance") /\ FmGet(fm, "dance").s # <<>>
    THEN TagLine(normalizeTag(FmGet(fm, "dance").s))
    ELSE TagLine(<<>>)

\* ln.trim().startsWith('#DanceLibrary')
IsTagLine(ln) == ln.t = "tag"

\* .replace(/^\n+/, "") on a text given by its lines
RECURSIVE StripLeadingNewlines(_)
StripLeadingNewlines(ls) ==
  IF Len(ls) > 1 /\ ls[1].t = "empty" THEN StripLeadingNewlines(Tail(ls)) ELSE ls

\* existingBody.split(/\r?\n/).filter(idx 0 is no tag line).join("\n")
\*   .replace(/^\n+/, "")
BodyWithoutOldTagLine(body) ==
  LET kept == IF IsTagLine(body[1]) THEN Tail(body) ELSE body
  IN StripLeadingNewlines(IF kept = <<>> THEN <<Empty>> ELSE kept)

\* `${tagsLine}\n\n${rest}`.replace(/\n+$/m, "\n"): the first run of newlines
\* that ends a line is the one after the tag line; it shrinks to one newline
\* only when nothing follows it
FinalBody(tagsLine, rest) ==
  IF rest = <<Empty>> THEN <<tagsLine, Empty>> ELSE <<tagsLine, Empty>> \o rest

\* the text upsertSidecarMetadata writes, given what it read
SidecarOut(read, meta) ==
  LET fm == FmDel(ApplyPatch(read.fm, meta), "tags")
      tagsLine == TagsLineOf(ApplyPatch(read.fm, meta))
      existingBody == IF read.hasBody THEN read.body ELSE <<Empty>>
      finalBody == FinalBody(tagsLine, BodyWithoutOldTagLine(existingBody))
      kvs == [i \in 1..Len(fm) |-> Kv(fm[i].k, JsString(fm[i].v))]
  IN <<Delim>> \o kvs \o <<Delim, Empty>> \o finalBody

(***************************************************************************)
(* scanDanceSteps: what it takes from the sidecar                          *)
(***************************************************************************)
\* readSidecarFrontmatter on the sidecar's text: the record, or null
ScanFrontmatter(content) ==
  IF StartsWithDelim(content) /\ ClosingDelim(content) > 0
    THEN LET parsed == parseYaml(SubSeq(content, 2, ClosingDelim(content) - 1))
         IN IF ~parsed.threw /\ parsed.isRecord
              THEN [isNull |-> FALSE, fm |-> parsed.fm]
              ELSE [isNull |-> TRUE, fm |-> <<>>]
    ELSE [isNull |-> TRUE, fm |-> <<>>]

\* typeof fm[k] === "string" && fm[k].trim()
FmNonEmptyStr(fm, k) == FmIsStr(fm, k) /\ Trim(FmGet(fm, k).s) # <<>>

\* A slot of the scanned item: Unset, or a value
Unset == [set |-> FALSE, s |-> <<>>]

Val(s) == [set |-> TRUE, s |-> s]

\* classLevel of the scanned item, from the path-inferred value
ScanClassLevel(r, inferred) ==
  IF r.isNull THEN inferred
  ELSE IF FmNonEmptyStr(r.fm, "classLevel") THEN Val(Trim(FmGet(r.fm, "classLevel").s))
  ELSE IF FmNonEmptyStr(r.fm, "class") THEN Val(Trim(FmGet(r.fm, "class").s))
  ELSE inferred

\* danceStyle of the scanned item, from the path-inferred value
ScanDanceStyle(r, inferred) ==
  IF r.isNull THEN inferred
  ELSE IF FmNonEmptyStr(r.fm, "danceStyle") THEN Val(Trim(FmGet(r.fm, "danceStyle").s))
  ELSE IF FmNonEmptyStr(r.fm, "style") THEN Val(Trim(FmGet(r.fm, "style").s))
  ELSE inferred

(***************************************************************************)
(* The vault                                                               *)
(***************************************************************************)
\* A vault path <dir>/<base>.<ext>
Path(dir, base, ext) == [dir |-> dir, base |-> base, ext |-> ext]

\* normalizePath(`${parent}/${basename}.md`): the sidecar path of a file
MdPath(p) == Path(p.dir, p.base, "md")

\* A file: a media file has a payload (blob), a sidecar has text
MediaFile(blob) == [blob |-> blob, text |-> <<Empty>>]

TextFile(text) == [blob |-> "", text |-> text]

\* vault.getAbstractFileByPath(p) is not null
Exists(v, p) == p \in DOMAIN v

\* vault.rename(from, to)
RenameIn(v, from, to) ==
  [p \in (DOMAIN v \ {from}) \cup {to} |-> IF p = to THEN v[from] ELSE v[p]]

\* vault.create(p, text)
CreateIn(v, p, text) ==
  [q \in DOMAIN v \cup {p} |-> IF q = p THEN TextFile(text) ELSE v[q]]

\* vault.modify(file at p, text)
ModifyIn(v, p, text) == [v EXCEPT ![p] = TextFile(text)]

\* fileManager.trashFile(file at p)
TrashIn(v, p) == [q \in DOMAIN v \ {p} |-> v[q]]

\* `${base} ${i}.${ext}`
Candidate(full, i) == Path(full.dir, full.base \o <<" ">> \o NumStr(i), full.ext)

RECURSIVE UniqueFrom(_, _, _)
\* the while loop of uniquePath / uniqueIfExists, entered with counter i
UniqueFrom(v, full, i) ==
  IF Exists(v, Candidate(full, i)) THEN UniqueFrom(v, full, i + 1) ELSE Candidate(full, i)

\* a mutant of uniquePath: the requested path is taken whether free or not
uniquePathNoCheck(v, full) == full

\* uniquePath (view.tsx), uniqueIfExists (organize.ts)
uniquePath(v, full) == IF ~Exists(v, full) THEN full ELSE UniqueFrom(v, full, 2)

(***************************************************************************)
(* State                                                                   *)
(***************************************************************************)
VARIABLES
  vault,     \* path -> file: the files of the vault
  op,        \* the saveMeta / upsertSidecarMetadata call in flight or just returned
  nops,      \* number of calls started
  vaultPre,  \* history: the vault when the call in op started
  last,      \* history: the call that returned before the one in op
  scan,      \* the scanDanceSteps call in flight or just returned
  dash,      \* the Dashboard component: its steps, search text, filters, editor
  view,      \* the DanceRepoView: its items and currentIndex
  op2        \* a second call in flight beside the one in op

vars == <<vault, op, nops, vaultPre, last, scan, dash, view, op2>>

\* what the calls on the vault leave alone
UiVars == <<dash, view, op2>>

NoMeta == Meta({}, <<>>, <<>>, <<>>, <<>>, <<>>, <<>>, <<>>, 0)

NoPath == Path("", <<>>, "")

NoRead == [fm |-> <<>>, hasBody |-> FALSE, body |-> <<Empty>>]

\* A call. pc is the await it is suspended at:
\*   "idle" no call yet, "sidecar" media renamed, "upsert" sidecar renamed,
\*   "write" sidecar read, "cleanup" upsertSidecarMetadata returned,
\*   "done" returned (failed: through the catch, or by a throw of upsert).
\* bin is the payload organizeVideoFile has read.
\* intended, conflict, trashed and fails are history: the path asked of
\* uniquePath, whether the target sidecar name was taken, whether the cleanup
\* trashed a file, and the vault calls that threw.
NewOp(kind, videoPath, meta) ==
  [pc |-> "idle", kind |-> kind, videoPath |-> videoPath, meta |-> meta,
   finalPath |-> videoPath, mdPath |-> NoPath, read |-> NoRead, bin |-> "",
   failed |-> FALSE, intended |-> NoPath, conflict |-> FALSE,
   trashed |-> FALSE, fails |-> {}]

IdleOp == NewOp("none", NoPath, NoMeta)

\* the call throws: saveMeta's catch reports it, upsert's caller gets it
Thrown(o, call) == [o EXCEPT !.pc = "done", !.failed = TRUE, !.fails = @ \cup {call}]

\* upsertSidecarMetadata returns
AfterUpsert(o) == [o EXCEPT !.pc = IF o.kind = "saveMeta" THEN "cleanup" ELSE "done"]

\* a mutant of UpsertSeg: the check that videoPath is an existing file is missing
UpsertSegNoFileCheck(v, o, fail) ==
  LET md == MdPath(o.finalPath)
  IN IF Exists(v, md)
       THEN [vault |-> v,
             op |-> [o EXCEPT !.pc = "write", !.mdPath = md,
                              !.read = ReadExisting(v[md].text, fail),
                              !.fails = IF fail THEN @ \cup {"read"} ELSE @]]
       ELSE IF fail
         THEN [vault |-> v, op |-> Thrown([o EXCEPT !.mdPath = md], "create")]
         ELSE [vault |-> CreateIn(v, md, SidecarOut(NoRead, o.meta)),
               op |-> AfterUpsert([o EXCEPT !.mdPath = md])]

\* upsertSidecarMetadata from its entry to its first vault call: vault.read of
\* the existing sidecar, or vault.create when there is none
UpsertSeg(v, o, fail) ==
  IF ~Exists(v, o.finalPath)
    THEN [vault |-> v, op |-> AfterUpsert(o)]
    ELSE LET md == MdPath(o.finalPath)
         IN IF Exists(v, md)
              THEN [vault |-> v,
                    op |-> [o EXCEPT !.pc = "write", !.mdPath = md,
                                     !.read = ReadExisting(v[md].text, fail),
                                     !.fails = IF fail THEN @ \cup {"read"} ELSE @]]
              ELSE IF fail
                THEN [vault |-> v, op |-> Thrown([o EXCEPT !.mdPath = md], "create")]
                ELSE [vault |-> CreateIn(v, md, SidecarOut(NoRead, o.meta)),
                      op |-> AfterUpsert([o EXCEPT !.mdPath = md])]

\* upsertSidecarMetadata after the read: vault.modify of the existing sidecar
WriteSeg(v, o, fail) ==
  IF fail
    THEN [vault |-> v, op |-> Thrown(o, "modify")]
    ELSE [vault |-> ModifyIn(v, o.mdPath, SidecarOut(o.read, o.meta)),
          op |-> AfterUpsert(o)]

\* `video-${Date.now()}`
VideoNow(now) == <<"v", "i", "d", "e", "o", "-">> \o NumStr(now)

\* (meta.stepName || "").trim()
Desired(meta) == IF "stepName" \in meta.keys THEN Trim(meta.stepName) ELSE <<>>

\* a mutant of TargetSlug: the desired name is used as it is, not its slug
TargetSlugRaw(meta, now) ==
  IF Desired(meta) # <<>> THEN Desired(meta) ELSE VideoNow(now)

\* slug(desired) || `video-${Date.now()}`
TargetSlug(meta, now) ==
  IF slug(Desired(meta)) # <<>> THEN slug(Desired(meta)) ELSE VideoNow(now)

\* saveMeta from its entry to its first vault call: vault.rename of the media
\* file when the slug of the step name is not its basename, else the first
\* call of upsertSidecarMetadata
SaveMetaSeg(v, o, fail, now) ==
  IF Desired(o.meta) # <<>> /\ Exists(v, o.videoPath)
       /\ TargetSlug(o.meta, now) # o.videoPath.base
    THEN LET intendedVideo == Path(o.videoPath.dir, TargetSlug(o.meta, now), o.videoPath.ext)
             newVideoPath == uniquePath(v, intendedVideo)
         IN IF fail
              THEN [vault |-> v, op |-> Thrown([o EXCEPT !.intended = intendedVideo], "renameMedia")]
              ELSE [vault |-> RenameIn(v, o.videoPath, newVideoPath),
                    op |-> [o EXCEPT !.pc = "sidecar", !.finalPath = newVideoPath,
                                     !.intended = intendedVideo]]
    ELSE UpsertSeg(v, o, fail)

\* a mutant of SidecarSeg: the old sidecar is removed and left to
\* upsertSidecarMetadata to write anew
SidecarSegDrop(v, o, fail) ==
  IF Exists(v, MdPath(o.videoPath))
    THEN [vault |-> TrashIn(v, MdPath(o.videoPath)), op |-> [o EXCEPT !.pc = "upsert"]]
    ELSE UpsertSeg(v, o, fail)

\* saveMeta after the media rename: vault.rename of the sidecar when it exists
\* and the target name is free (a throw is swallowed), else on to
\* upsertSidecarMetadata
SidecarSeg(v, o, fail) ==
  LET oldMdPath == MdPath(o.videoPath)
      targetMdPath == MdPath(o.finalPath)
  IN IF Exists(v, oldMdPath)
       THEN IF ~Exists(v, targetMdPath)
              THEN [vault |-> IF fail THEN v ELSE RenameIn(v, oldMdPath, targetMdPath),
                    op |-> [o EXCEPT !.pc = "upsert",
                                     !.fails = IF fail THEN @ \cup {"renameSidecar"} ELSE @]]
              ELSE UpsertSeg(v, [o EXCEPT !.conflict = TRUE], fail)
       ELSE UpsertSeg(v, o, fail)

\* mutants of ShouldTrashOld: "if an old sidecar remains, remove it"
ShouldTrashOldNaive(v, o) == Exists(v, MdPath(o.videoPath))

\* the cleanup's test: the media file was renamed, and both the old and the
\* new sidecar exist under different paths
ShouldTrashOld(v, o) ==
  /\ o.finalPath # o.videoPath
  /\ Exists(v, MdPath(o.videoPath))
  /\ Exists(v, MdPath(o.finalPath))
  /\ MdPath(o.videoPath) # MdPath(o.finalPath)

\* saveMeta after upsertSidecarMetadata: fileManager.trashFile of the old
\* sidecar (a throw is swallowed), and the return
CleanupSeg(v, o, fail) ==
  IF ShouldTrashOld(v, o)
    THEN [vault |-> IF fail THEN v ELSE TrashIn(v, MdPath(o.videoPath)),
          op |-> [o EXCEPT !.pc = "done", !.trashed = ~fail,
                           !.fails = IF fail THEN @ \cup {"trash"} ELSE @]]
    ELSE [vault |-> v, op |-> [o EXCEPT !.pc = "done"]]

(***************************************************************************)
(* Inputs                                                                  *)
(***************************************************************************)
\* the values Date.now() takes
Times == {1, 2}

\* the extensions scanDanceSteps lists (those the model's vaults use)
MediaExts == {"mp4", "mov"}

AMp4 == Path("Dance", <<"a">>, "mp4")

AMov == Path("Dance", <<"a">>, "mov")

BMp4 == Path("Dance", <<"b">>, "mp4")

CMp4 == Path("Dance", <<"c">>, "mp4")

\* a path at which the vault never has a file
MissingPath == Path("Dance", <<"x">>, "mp4")

\* a hand-edited sidecar: recognized fields, three fields of the user's (a
\* number, a sequence, an empty one), a body
NoteB ==
  <<Delim, Kv("stepName", <<"b">>), Kv("classLevel", <<"B">>), Kv("mykey", <<"7">>),
    Kv("seen", <<"[", "x", "]">>), Kv("thumbnail", <<>>), Delim, Empty, TextLine(<<"n">>)>>

\* another step's sidecar: recognized fields and a field of the user's, no body
NoteA ==
  <<Delim, Kv("stepName", <<"a">>), Kv("style", <<"c">>), Kv("other", <<"x">>), Delim, Empty>>

\* a note without frontmatter
NotePlain == <<TextLine(<<"n">>)>>

\* the vaults a behaviour starts from: a step with a hand-edited sidecar;
\* the same beside a media file named a; the same beside a media file a.mov
\* with its own sidecar a.md; a step without sidecar beside one with a plain
\* note
InitVaults ==
  { (BMp4 :> MediaFile("v1")) @@ (MdPath(BMp4) :> TextFile(NoteB)),
    (AMp4 :> MediaFile("v2")) @@ (BMp4 :> MediaFile("v1"))
       @@ (MdPath(BMp4) :> TextFile(NoteB)),
    (AMov :> MediaFile("v2")) @@ (MdPath(AMov) :> TextFile(NoteA))
       @@ (BMp4 :> MediaFile("v1")) @@ (MdPath(BMp4) :> TextFile(NoteB)),
    (BMp4 :> MediaFile("v1")) @@ (CMp4 :> MediaFile("v3"))
       @@ (MdPath(CMp4) :> TextFile(NotePlain)) }

\* the meta objects saveMeta is called with (ObsidianApp.onSaveEdit passes
\* stepName, description, dance, style and class)
SavePatches ==
  { Meta({"stepName"}, <<"A">>, <<>>, <<>>, <<>>, <<>>, <<>>, <<>>, 0),
    Meta({"stepName", "description", "dance", "style", "class"},
         <<"B", " ", "E_ACUTE">>, <<"d">>, <<"S", " ", "a">>, <<"o">>, <<>>, <<"N">>, <<>>, 0),
    Meta({"stepName"}, <<"+">>, <<>>, <<>>, <<>>, <<>>, <<>>, <<>>, 0) }

\* the meta objects upsertSidecarMetadata is called with directly
UpsertPatches ==
  { Meta({"danceStyle", "class", "playCount"}, <<>>, <<>>, <<>>, <<>>, <<"o">>, <<"N">>, <<>>, -1) }

\* the paths a call is given: a media file of the vault, or a path without file
Targets(v) == {p \in DOMAIN v : p.ext \in MediaExts} \cup {MissingPath}

(***************************************************************************)
(* Behaviour                                                               *)
(***************************************************************************)
\* What the history keeps of a returned call: its kind and meta, the path it
\* was given, the path it ended at, the path it asked of uniquePath, and
\* whether every vault call of it succeeded
NoLast ==
  [valid |-> FALSE, kind |-> "none", meta |-> NoMeta, videoPath |-> NoPath,
   finalPath |-> NoPath, intended |-> NoPath, clean |-> FALSE]

Summary(o) ==
  IF o.pc = "done"
    THEN [valid |-> TRUE, kind |-> o.kind, meta |-> o.meta, videoPath |-> o.videoPath,
          finalPath |-> o.finalPath, intended |-> o.intended,
          clean |-> ~o.failed /\ o.fails = {}]
    ELSE NoLast

(***************************************************************************)
(* scanDanceSteps: candidates, path inference, items, order                *)
(***************************************************************************)
\* In the vaults that are scanned a path's folder is the sequence of its
\* segments, each a string of code points like a basename.

\* VIDEO_EXTS (repo.ts)
VIDEO_EXTS == {"mp4", "webm", "mov", "m4v", "ogg", "avi"}

\* file.extension.toLowerCase(), for the extensions the vaults use
ExtLower(ext) == IF ext = "MP4" THEN "mp4" ELSE ext

\* the code points of an extension
ExtChars(ext) ==
  CASE ext = "mp4" -> <<"m", "p", "4">>
    [] ext = "MP4" -> <<"M", "P", "4">>
    [] ext = "avi" -> <<"a", "v", "i">>
    [] ext = "mov" -> <<"m", "o", "v">>
    [] OTHER -> <<"m", "d">>

\* isVideo
isVideo(p) == ExtLower(p.ext) \in VIDEO_EXTS

RECURSIVE JoinDir(_)
\* the folder of a path as a string: each segment followed by /
JoinDir(dir) ==
  IF dir = <<>> THEN <<>> ELSE Head(dir) \o <<"/">> \o JoinDir(Tail(dir))

\* TFile.path
PathStr(p) == JoinDir(p.dir) \o p.base \o <<".">> \o ExtChars(p.ext)

RECURSIVE CollapseSlashes(_)
\* .replace(/([\\/])+/g, "/")
CollapseSlashes(s) ==
  IF Len(s) < 2 THEN s
  ELSE IF s[1] = "/" /\ s[2] = "/" THEN CollapseSlashes(Tail(s))
  ELSE <<s[1]>> \o CollapseSlashes(Tail(s))

\* normalizePath (obsidian): runs of slashes become one, leading and trailing
\* slashes are removed, the empty path becomes /
normalizePath(s) ==
  LET t == DropWhileLast(DropWhileHead(CollapseSlashes(s), {"/"}), {"/"})
  IN IF t = <<>> THEN <<"/">> ELSE t

\* allowedPrefix of scanDanceSteps for the setting rootFolder
AllowedPrefix(rootFolder) ==
  LET root == Trim(rootFolder)
  IN IF root = <<>> THEN <<>>
     ELSE normalizePath(root \o (IF root[Len(root)] = "/" THEN <<>> ELSE <<"/">>))

\* s.startsWith(pre)
StartsWith(s, pre) == Len(pre) <= Len(s) /\ SubSeq(s, 1, Len(pre)) = pre

RECURSIVE SplitOn(_, _)
\* s.split(sep)
SplitOn(s, sep) ==
  IF \E i \in 1..Len(s) : s[i] = sep
    THEN LET i == CHOOSE j \in 1..Len(s) : s[j] = sep /\ \A k \in 1..(j - 1) : s[k] # sep
         IN <<SubSeq(s, 1, i - 1)>> \o SplitOn(SubSeq(s, i + 1, Len(s)), sep)
    ELSE <<s>>

\* the candidates of a scan: the media files under the prefix
Candidates(v, rootFolder) ==
  {p \in DOMAIN v : isVideo(p) /\ StartsWith(PathStr(p), AllowedPrefix(rootFolder))}

\* parts of scanDanceSteps: the path below the prefix, split at /
Parts(p, rootFolder) ==
  SplitOn(SubSeq(PathStr(p), Len(AllowedPrefix(rootFolder)) + 1, Len(PathStr(p))), "/")

\* the value inferred from the k-th part, undefined when the path is too short
Inferred(p, rootFolder, k) ==
  IF Len(Parts(p, rootFolder)) > k THEN Val(Parts(p, rootFolder)[k]) ELSE Unset

\* the text of a line
LineText(l) ==
  CASE l.t = "delim" -> <<"-", "-", "-">>
    [] l.t = "kv" -> <<l.k, ":", " ">> \o l.v
    [] l.t = "tag" -> <<"#", "DanceLibrary">> \o (IF l.v = <<>> THEN <<>> ELSE <<" ", "#">> \o l.v)
    [] l.t = "bad" -> <<":", ":">>
    [] OTHER -> l.v

\* readSidecarDescription on the sidecar's text: the frontmatter description
\* when it is a non-empty string, else the first non-empty line; undefined
\* when parseYaml throws
SidecarDescription(content) ==
  LET closed == StartsWithDelim(content) /\ ClosingDelim(content) > 0
      parsed == parseYaml(SubSeq(content, 2, ClosingDelim(content) - 1))
      lines == SelectSeq(content, LAMBDA l : Trim(LineText(l)) # <<>>)
  IN IF closed /\ parsed.threw THEN Unset
     ELSE IF closed /\ parsed.isRecord /\ FmNonEmptyStr(parsed.fm, "description")
       THEN Val(Trim(FmGet(parsed.fm, "description").s))
     ELSE IF lines = <<>> THEN Unset
     ELSE Val(Trim(LineText(lines[1])))

\* a value of the sidecar when it is a non-empty string, else the value so far
Override(r, k, sofar) ==
  IF ~r.isNull /\ FmNonEmptyStr(r.fm, k) THEN Val(Trim(FmGet(r.fm, k).s)) ELSE sofar

\* playCount of the scanned item
ScanPlayCount(r) ==
  IF ~r.isNull /\ FmHas(r.fm, "playCount") /\ FmGet(r.fm, "playCount").ty = "num"
    THEN [set |-> TRUE, n |-> Max(0, FmGet(r.fm, "playCount").n)]
    ELSE [set |-> FALSE, n |-> 0]

\* null, what readSidecarFrontmatter returns without a record
NoFm == [isNull |-> TRUE, fm |-> <<>>]

\* what scanDanceSteps knows of a candidate before it reads the frontmatter:
\* name and categories from the path, description from the sidecar
Started(p, rootFolder, description) ==
  [name |-> p.base, description |-> description,
   dance |-> Inferred(p, rootFolder, 1),
   danceStyle |-> Inferred(p, rootFolder, 2),
   classLevel |-> Inferred(p, rootFolder, 3)]

\* the item pushed for a candidate: cur overridden by the frontmatter r, with
\* the path the file has now
Item(p, cur, r) ==
  [path |-> p,
   name |-> Override(r, "stepName", Val(cur.name)).s,
   description |-> Override(r, "description", cur.description),
   dance |-> Override(r, "dance", cur.dance),
   danceStyle |-> ScanDanceStyle(r, cur.danceStyle),
   classLevel |-> ScanClassLevel(r, cur.classLevel),
   playCount |-> ScanPlayCount(r)]

Lower26 ==
  <<"a", "b", "c", "d", "e", "f", "g", "h", "i", "j", "k", "l", "m",
    "n", "o", "p", "q", "r", "s", "t", "u", "v", "w", "x", "y", "z">>

Upper26 ==
  <<"A", "B", "C", "D", "E", "F", "G", "H", "I", "J", "K", "L", "M",
    "N", "O", "P", "Q", "R", "S", "T", "U", "V", "W", "X", "Y", "Z">>

\* the place of a letter in the alphabet, 0 for any other code point
LetterIndex(c) ==
  IF \E i \in 1..26 : Lower26[i] = c \/ Upper26[i] = c
    THEN CHOOSE i \in 1..26 : Lower26[i] = c \/ Upper26[i] = c
    ELSE 0

\* String.prototype.localeCompare ignores some code points altogether; of
\* those the vaults use the soft hyphen U+00AD, named "SHY"
IsIgnorable(c) == c = "SHY"

\* the primary weight of a code point in localeCompare's default collation:
\* space, punctuation, digits, letters, in this order; a letter's case does
\* not count here
PrimaryWeight(c) ==
  CASE c = " " -> 1
    [] c = "-" -> 2
    [] c = "." -> 3
    [] c = "/" -> 4
    [] c \in DigitSet -> 10 + DigitVal(c)
    [] LetterIndex(c) > 0 -> 20 + LetterIndex(c)
    [] OTHER -> 5

\* the case weight: lower case before upper case
CaseWeight(c) == IF \E i \in 1..26 : Upper26[i] = c THEN 1 ELSE 0

\* the keys localeCompare compares: the weights of the code points it does
\* not ignore
PrimaryKey(s) ==
  LET t == SelectSeq(s, LAMBDA c : ~IsIgnorable(c))
  IN [i \in 1..Len(t) |-> PrimaryWeight(t[i])]

CaseKey(s) ==
  LET t == SelectSeq(s, LAMBDA c : ~IsIgnorable(c))
  IN [i \in 1..Len(t) |-> CaseWeight(t[i])]

RECURSIVE LexCompare(_, _)
\* -1, 0 or 1: the order of two sequences of numbers
LexCompare(a, b) ==
  IF a = <<>> /\ b = <<>> THEN 0
  ELSE IF a = <<>> THEN -1
  ELSE IF b = <<>> THEN 1
  ELSE IF Head(a) < Head(b) THEN -1
  ELSE IF Head(a) > Head(b) THEN 1
  ELSE LexCompare(Tail(a), Tail(b))

\* a.localeCompare(b): by primary keys, then by case
localeCompare(a, b) ==
  IF LexCompare(PrimaryKey(a), PrimaryKey(b)) # 0
    THEN LexCompare(PrimaryKey(a), PrimaryKey(b))
    ELSE LexCompare(CaseKey(a), CaseKey(b))

\* one item put into a sorted list behind the items that do not come after it
InsertSorted(sorted, it) ==
  LET after == {j \in 1..Len(sorted) :
                  localeCompare(PathStr(sorted[j].path), PathStr(it.path)) > 0}
      n == IF after = {} THEN Len(sorted) + 1
           ELSE CHOOSE j \in after : \A k \in after : j <= k
  IN SubSeq(sorted, 1, n - 1) \o <<it>> \o SubSeq(sorted, n, Len(sorted))

RECURSIVE SortItems(_)
\* items.sort((a, b) => a.path.localeCompare(b.path)): a stable sort
SortItems(items) ==
  IF items = <<>> THEN <<>>
  ELSE InsertSorted(SortItems(SubSeq(items, 1, Len(items) - 1)), items[Len(items)])

\* A scanDanceSteps call. pc is the await it is suspended at: "idle" no call
\* yet, "desc" the read of readSidecarDescription, "fm" the read of
\* readSidecarFrontmatter, "done" returned. files are the TFile objects of
\* the candidates in the order vault.getFiles() gave them (a media file is
\* known by its payload), paths the path each TFile object holds now, i the
\* candidate in work, cur what is known of its item, items the items pushed
\* or returned. fails (the reads that threw), nscans (calls started) and prev
\* (the list the call before returned) are history.
NoCur ==
  [name |-> <<>>, description |-> Unset, dance |-> Unset, danceStyle |-> Unset,
   classLevel |-> Unset]

NoPrev == [valid |-> FALSE, root |-> <<>>, items |-> <<>>]

IdleScan ==
  [pc |-> "idle", root |-> <<>>, files |-> <<>>, paths |-> <<>>, i |-> 0,
   cur |-> NoCur, items |-> <<>>, fails |-> {}, nscans |-> 0, prev |-> NoPrev]

\* scanDanceSteps from its entry to the first candidate: the candidates in the
\* order files gives them; without candidates it returns the empty list
ScanListSeg(s, v, rootFolder, files) ==
  [s EXCEPT !.pc = IF files = <<>> THEN "done" ELSE "desc",
            !.root = rootFolder,
            !.files = [k \in 1..Len(files) |-> v[files[k]].blob],
            !.paths = [id \in {v[files[k]].blob : k \in 1..Len(files)} |->
                         CHOOSE q \in DOMAIN v : v[q].blob = id],
            !.i = IF files = <<>> THEN 0 ELSE 1,
            !.cur = NoCur,
            !.items = <<>>,
            !.fails = {},
            !.nscans = @ + 1,
            !.prev = IF s.pc = "done" /\ s.fails = {}
                       THEN [valid |-> TRUE, root |-> s.root, items |-> s.items]
                       ELSE NoPrev]

\* a mutant of ScanDescSeg: a read that throws ends the scan without items
ScanDescSegAbort(s, v, fail) ==
  LET p == s.paths[s.files[s.i]]
      md == MdPath(p)
  IN IF Exists(v, md) /\ fail
       THEN [s EXCEPT !.pc = "done", !.items = <<>>, !.fails = @ \cup {<<s.i, "desc">>}]
       ELSE [s EXCEPT !.pc = "fm",
                      !.cur = Started(p, s.root,
                                      IF Exists(v, md) THEN SidecarDescription(v[md].text)
                                      ELSE Unset)]

\* scanDanceSteps for the candidate in work, up to the read of
\* readSidecarDescription (fail: vault.read throws, which the catch swallows)
ScanDescSeg(s, v, fail) ==
  LET p == s.paths[s.files[s.i]]
      md == MdPath(p)
      description == IF Exists(v, md) /\ ~fail THEN SidecarDescription(v[md].text)
                     ELSE Unset
  IN [s EXCEPT !.pc = "fm",
               !.cur = Started(p, s.root, description),
               !.fails = IF Exists(v, md) /\ fail THEN @ \cup {<<s.i, "desc">>} ELSE @]

\* scanDanceSteps after that read: the read of readSidecarFrontmatter, the
\* overrides and the push of the item; after the last candidate the sort and
\* the return
ScanFmSeg(s, v, fail) ==
  LET p == s.paths[s.files[s.i]]
      md == MdPath(p)
      r == IF Exists(v, md) /\ ~fail THEN ScanFrontmatter(v[md].text) ELSE NoFm
      items == Append(s.items, Item(p, s.cur, r))
      fails == IF Exists(v, md) /\ fail THEN s.fails \cup {<<s.i, "fm">>} ELSE s.fails
  IN IF s.i = Len(s.files)
       THEN [s EXCEPT !.pc = "done", !.items = SortItems(items), !.fails = fails]
       ELSE [s EXCEPT !.pc = "desc", !.i = @ + 1, !.items = items, !.fails = fails]

\* vault.rename sets the path of the TFile object it moves, and the scan holds
\* the same objects: the paths of s after the vault became v
Follow(s, v) ==
  [s EXCEPT !.paths =
     [id \in DOMAIN s.paths |->
        IF \E p \in DOMAIN v : v[p].blob = id
          THEN CHOOSE p \in DOMAIN v : v[p].blob = id
          ELSE s.paths[id]]]

(***************************************************************************)
(* The Dashboard and the view                                              *)
(***************************************************************************)
\* A StepItem of the Dashboard. id is the path the step was made from; a
\* string that is undefined is kept as the empty string, which the code
\* treats alike (s.class || "", !s.class)
StepItem(id, stepName, description, class, dance, style, addedAt, playCount) ==
  [id |-> id, stepName |-> stepName, description |-> description, class |-> class,
   dance |-> dance, style |-> style, addedAt |-> addedAt, playCount |-> playCount]

NoStep == StepItem(NoPath, <<>>, <<>>, <<>>, <<>>, <<>>, 0, 0)

\* the Filters of the Dashboard
Filters(classes, dances, styles, sort) ==
  [classes |-> classes, dances |-> dances, styles |-> styles, sort |-> sort]

\* useState(...) of Dashboard: no steps, no search text, no facet, sort az,
\* no step in the editor, none in the viewer. viewerOp is history: the number
\* of the call that openViewer started
IdleDash ==
  [steps |-> <<>>, query |-> <<>>, filters |-> Filters(<<>>, <<>>, <<>>, "az"),
   editing |-> NoStep, viewer |-> NoStep, viewerOp |-> 0]

\* state of DanceRepoView when constructed; refreshing: a refresh awaits its
\* scan; was is history: the index the last refresh found when it returned
IdleView == [items |-> <<>>, currentIndex |-> 0, refreshing |-> FALSE, was |-> 0]

(***************************************************************************)
(* filterAndSortSteps and the filter drawer                                *)
(***************************************************************************)
\* String.prototype.toLowerCase
LowerStr(s) == [i \in 1..Len(s) |-> ToLower(s[i])]

\* hay.includes(q)
Includes(hay, q) ==
  \E i \in 0..(Len(hay) - Len(q)) : SubSeq(hay, i + 1, i + Len(q)) = q

\* the text of a step that the search looks into
Hay(st) ==
  LowerStr(st.stepName \o <<" ">> \o st.description \o <<" ">> \o st.dance \o <<" ">>
             \o st.style \o <<" ">> \o st.class)

\* list.includes(x)
InList(list, x) == \E i \in 1..Len(list) : list[i] = x

\* a mutant of Keeps: a facet that the step does not have passes any filter
KeepsUnset(st, q, filters) ==
  /\ q # <<>> => Includes(Hay(st), q)
  /\ ~(Len(filters.classes) > 0 /\ st.class # <<>> /\ ~InList(filters.classes, st.class))
  /\ ~(Len(filters.dances) > 0 /\ st.dance # <<>> /\ ~InList(filters.dances, st.dance))
  /\ ~(Len(filters.styles) > 0 /\ st.style # <<>> /\ ~InList(filters.styles, st.style))

\* the callback of steps.filter, q being the trimmed lower-case query
Keeps(st, q, filters) ==
  /\ q # <<>> => Includes(Hay(st), q)
  /\ ~(Len(filters.classes) > 0 /\ (st.class = <<>> \/ ~InList(filters.classes, st.class)))
  /\ ~(Len(filters.dances) > 0 /\ (st.dance = <<>> \/ ~InList(filters.dances, st.dance)))
  /\ ~(Len(filters.styles) > 0 /\ (st.style = <<>> \/ ~InList(filters.styles, st.style)))

\* a mutant of SortCompare: recent breaks ties by name ascending
SortCompareAscending(sort, a, b) ==
  CASE sort = "az" -> localeCompare(a.stepName, b.stepName)
    [] sort = "mostPlayed" ->
         IF b.playCount - a.playCount # 0 THEN b.playCount - a.playCount
         ELSE localeCompare(a.stepName, b.stepName)
    [] OTHER ->
         IF b.addedAt - a.addedAt # 0 THEN b.addedAt - a.addedAt
         ELSE localeCompare(a.stepName, b.stepName)

\* the comparator of list.sort for the sort mode (filters.sort || "recent")
SortCompare(sort, a, b) ==
  CASE sort = "az" -> localeCompare(a.stepName, b.stepName)
    [] sort = "mostPlayed" ->
         IF b.playCount - a.playCount # 0 THEN b.playCount - a.playCount
         ELSE localeCompare(a.stepName, b.stepName)
    [] OTHER ->
         IF b.addedAt - a.addedAt # 0 THEN b.addedAt - a.addedAt
         ELSE localeCompare(b.stepName, a.stepName)

\* one step put into a sorted list behind the steps that do not come after it
InsertStep(sorted, st, sort) ==
  LET after == {j \in 1..Len(sorted) : SortCompare(sort, sorted[j], st) > 0}
      n == IF after = {} THEN Len(sorted) + 1
           ELSE CHOOSE j \in after : \A k \in after : j <= k
  IN SubSeq(sorted, 1, n - 1) \o <<st>> \o SubSeq(sorted, n, Len(sorted))

RECURSIVE SortSteps(_, _)
\* list.sort(comparator): a stable sort
SortSteps(list, sort) ==
  IF list = <<>> THEN <<>>
  ELSE InsertStep(SortSteps(SubSeq(list, 1, Len(list) - 1), sort), list[Len(list)], sort)

\* a mutant of filterAndSortSteps: an empty list of allowed dances lets no
\* step pass
filterAndSortStepsExcludeAll(steps, query, filters) ==
  LET q == LowerStr(Trim(query))
  IN SortSteps(SelectSeq(steps, LAMBDA st : Keeps(st, q, filters) /\ Len(filters.dances) > 0),
               filters.sort)

\* filterAndSortSteps(steps, query, filters)
filterAndSortSteps(steps, query, filters) ==
  LET q == LowerStr(Trim(query))
  IN SortSteps(SelectSeq(steps, LAMBDA st : Keeps(st, q, filters)), filters.sort)

\* handleClassToggle, handleDanceToggle, handleStyleToggle on one list of
\* allowed values: the value leaves the list when it is in it, else joins it
Toggle(list, x) ==
  IF InList(list, x) THEN SelectSeq(list, LAMBDA y : y # x) ELSE Append(list, x)

\* filteredSteps of Dashboard: what it shows
Shown == filterAndSortSteps(dash.steps, dash.query, dash.filters)

Init ==
  /\ vault \in InitVaults
  /\ op = IdleOp
  /\ nops = 0
  /\ vaultPre = vault
  /\ last = NoLast
  /\ scan = IdleScan
  /\ dash = IdleDash
  /\ view = IdleView
  /\ op2 = IdleOp

\* one call at a time: a call starts when none is in flight
CanStart == op.pc \in {"idle", "done"} /\ nops < MaxOps

\* saveMeta(videoPath, meta) is called
SaveMetaStart ==
  /\ CanStart
  /\ \E videoPath \in Targets(vault), meta \in SavePatches, fail \in BOOLEAN, now \in Times :
       LET r == SaveMetaSeg(vault, NewOp("saveMeta", videoPath, meta), fail, now)
       IN /\ vault' = r.vault
          /\ op' = r.op
  /\ nops' = nops + 1
  /\ vaultPre' = vault
  /\ last' = Summary(op)
  /\ scan' = Follow(scan, vault')
  /\ UNCHANGED UiVars

\* upsertSidecarMetadata(vault, videoPath, meta) is called
UpsertStart ==
  /\ CanStart
  /\ \E videoPath \in Targets(vault), meta \in UpsertPatches, fail \in BOOLEAN :
       LET r == UpsertSeg(vault, NewOp("upsert", videoPath, meta), fail)
       IN /\ vault' = r.vault
          /\ op' = r.op
  /\ nops' = nops + 1
  /\ vaultPre' = vault
  /\ last' = Summary(op)
  /\ scan' = Follow(scan, vault')
  /\ UNCHANGED UiVars

\* saveMeta resumes after the media rename
SaveMetaSidecar ==
  /\ op.pc = "sidecar"
  /\ \E fail \in BOOLEAN :
       LET r == SidecarSeg(vault, op, fail)
       IN /\ vault' = r.vault
          /\ op' = r.op
  /\ UNCHANGED <<nops, vaultPre, last>>
  /\ scan' = Follow(scan, vault')
  /\ UNCHANGED UiVars

\* saveMeta resumes after the sidecar rename and calls upsertSidecarMetadata
SaveMetaUpsert ==
  /\ op.pc = "upsert"
  /\ \E fail \in BOOLEAN :
       LET r == UpsertSeg(vault, op, fail)
       IN /\ vault' = r.vault
          /\ op' = r.op
  /\ UNCHANGED <<nops, vaultPre, last>>
  /\ scan' = Follow(scan, vault')
  /\ UNCHANGED UiVars

\* upsertSidecarMetadata resumes after the read and writes the sidecar
UpsertWrite ==
  /\ op.pc = "write"
  /\ \E fail \in BOOLEAN :
       LET r == WriteSeg(vault, op, fail)
       IN /\ vault' = r.vault
          /\ op' = r.op
  /\ UNCHANGED <<nops, vaultPre, last>>
  /\ scan' = Follow(scan, vault')
  /\ UNCHANGED UiVars

\* saveMeta resumes after upsertSidecarMetadata, cleans up and returns
SaveMetaCleanup ==
  /\ op.pc = "cleanup"
  /\ \E fail \in BOOLEAN :
       LET r == CleanupSeg(vault, op, fail)
       IN /\ vault' = r.vault
          /\ op' = r.op
  /\ UNCHANGED <<nops, vaultPre, last>>
  /\ scan' = Follow(scan, vault')
  /\ UNCHANGED UiVars

Next ==
  \/ SaveMetaStart
  \/ UpsertStart
  \/ SaveMetaSidecar
  \/ SaveMetaUpsert
  \/ UpsertWrite
  \/ SaveMetaCleanup

Spec == Init /\ [][Next]_vars

\* a sidecar whose frontmatter block is no YAML mapping
NoteBadYaml ==
  <<Delim, Kv("stepName", <<"b">>), Bad, Delim, Empty, TextLine(<<"n">>)>>

\* a sidecar whose frontmatter block is not closed
NoteUnclosed == <<Delim, Kv("stepName", <<"b">>), Empty, TextLine(<<"n">>)>>

\* vaults with a step whose sidecar cannot be parsed
UnparsedVaults ==
  { (BMp4 :> MediaFile("v1")) @@ (MdPath(BMp4) :> TextFile(NoteBadYaml)),
    (BMp4 :> MediaFile("v1")) @@ (MdPath(BMp4) :> TextFile(NoteUnclosed)) }

InitUnparsed ==
  /\ vault \in UnparsedVaults
  /\ op = IdleOp
  /\ nops = 0
  /\ vaultPre = vault
  /\ last = NoLast
  /\ scan = IdleScan
  /\ dash = IdleDash
  /\ view = IdleView
  /\ op2 = IdleOp

\* the same calls on vaults with a sidecar that cannot be parsed
SpecUnparsed == InitUnparsed /\ [][Next]_vars

(***************************************************************************)
(* Scans                                                                   *)
(***************************************************************************)
\* number of scanDanceSteps calls in one behaviour
MaxScans == 2

\* the values of the setting rootFolder: none (the default), and the folder d
RootFolders == {<<>>, <<"d">>}

\* the sidecar of a step: name, dance and play count set, style empty
NoteX ==
  <<Delim, Kv("stepName", <<"n">>), Kv("dance", <<"c">>), Kv("style", <<>>),
    Kv("playCount", <<"7">>), Delim, Empty>>

\* the vaults that are scanned: a step three folders below d with a sidecar,
\* beside a file e/z.avi; three media files in d, two of them with names that
\* differ by a soft hyphen only, one with an upper-case name and extension;
\* two steps in d/s with sidecars, one of which cannot be parsed
ScanVaults ==
  { (Path(<<<<"d">>, <<"s">>, <<"o">>, <<"b">>>>, <<"x">>, "mp4") :> MediaFile("v1"))
      @@ (Path(<<<<"d">>, <<"s">>, <<"o">>, <<"b">>>>, <<"x">>, "md") :> TextFile(NoteX))
      @@ (Path(<<<<"e">>>>, <<"z">>, "avi") :> MediaFile("v2")),
    (Path(<<<<"d">>>>, <<"y">>, "mp4") :> MediaFile("v1"))
      @@ (Path(<<<<"d">>>>, <<"y", "SHY">>, "mp4") :> MediaFile("v2"))
      @@ (Path(<<<<"d">>>>, <<"B">>, "MP4") :> MediaFile("v3")),
    (Path(<<<<"d">>, <<"s">>>>, <<"p">>, "mp4") :> MediaFile("v1"))
      @@ (Path(<<<<"d">>, <<"s">>>>, <<"p">>, "md") :> TextFile(NoteBadYaml))
      @@ (Path(<<<<"d">>, <<"s">>>>, <<"q">>, "mp4") :> MediaFile("v2"))
      @@ (Path(<<<<"d">>, <<"s">>>>, <<"q">>, "md") :> TextFile(NoteB)) }

\* the orders in which vault.getFiles() can give the files of set ps
Orders(ps) ==
  {f \in [1..Cardinality(ps) -> ps] : \A a, b \in 1..Cardinality(ps) : a # b => f[a] # f[b]}

InitScan ==
  /\ vault \in ScanVaults
  /\ op = IdleOp
  /\ nops = 0
  /\ vaultPre = vault
  /\ last = NoLast
  /\ scan = IdleScan
  /\ dash = IdleDash
  /\ view = IdleView
  /\ op2 = IdleOp

\* scanDanceSteps(vault, {rootFolder}) is called
ScanStart ==
  /\ scan.pc \in {"idle", "done"} /\ scan.nscans < MaxScans
  /\ \E rootFolder \in RootFolders :
       \E files \in Orders(Candidates(vault, rootFolder)) :
         scan' = ScanListSeg(scan, vault, rootFolder, files)
  /\ UNCHANGED <<vault, op, nops, vaultPre, last, dash, view, op2>>

\* the scan reads the sidecar of the candidate in work for its description
ScanReadDescription ==
  /\ scan.pc = "desc"
  /\ \E fail \in BOOLEAN : scan' = ScanDescSeg(scan, vault, fail)
  /\ UNCHANGED <<vault, op, nops, vaultPre, last, dash, view, op2>>

\* the scan reads the sidecar again for its frontmatter and pushes the item
ScanReadFrontmatter ==
  /\ scan.pc = "fm"
  /\ \E fail \in BOOLEAN : scan' = ScanFmSeg(scan, vault, fail)
  /\ UNCHANGED <<vault, op, nops, vaultPre, last, dash, view, op2>>

NextScan ==
  \/ ScanStart
  \/ ScanReadDescription
  \/ ScanReadFrontmatter

\* scans of a vault that does not change
SpecScan == InitScan /\ [][NextScan]_vars

\* a mutant of DeleteSeg: the media file is trashed before its sidecar
DeleteSegMediaFirst(v, o, fail) ==
  IF ~Exists(v, o.videoPath)
    THEN [vault |-> v, op |-> [o EXCEPT !.pc = "done"]]
    ELSE IF fail
      THEN [vault |-> v, op |-> Thrown(o, "trashMedia")]
      ELSE [vault |-> TrashIn(v, o.videoPath),
            op |-> [o EXCEPT !.pc = IF Exists(v, MdPath(o.videoPath)) THEN "trashMedia" ELSE "done",
                             !.trashed = TRUE]]

(***************************************************************************)
(* A scan beside edits and deletions                                       *)
(***************************************************************************)
\* deletePath from its entry to its first vault call: trashFile of the sidecar
\* when there is one, else trashFile of the media file; a path without file
\* gives a notice only, and a throw goes to the catch
DeleteSeg(v, o, fail) ==
  IF ~Exists(v, o.videoPath)
    THEN [vault |-> v, op |-> [o EXCEPT !.pc = "done"]]
    ELSE IF Exists(v, MdPath(o.videoPath))
      THEN IF fail
             THEN [vault |-> v, op |-> Thrown(o, "trashSidecar")]
             ELSE [vault |-> TrashIn(v, MdPath(o.videoPath)),
                   op |-> [o EXCEPT !.pc = "trashMedia"]]
      ELSE IF fail
        THEN [vault |-> v, op |-> Thrown(o, "trashMedia")]
        ELSE [vault |-> TrashIn(v, o.videoPath),
              op |-> [o EXCEPT !.pc = "done", !.trashed = TRUE]]

\* deletePath after the sidecar went: trashFile of the media file
DeleteMediaSeg(v, o, fail) ==
  IF fail
    THEN [vault |-> v, op |-> Thrown(o, "trashMedia")]
    ELSE [vault |-> TrashIn(v, o.videoPath),
          op |-> [o EXCEPT !.pc = "done", !.trashed = TRUE]]

\* number of scanDanceSteps calls beside the edits of one behaviour
MaxRaceScans == 1

\* the vault a scan races in: two steps in d/s, one with a sidecar
RaceVaults ==
  { (Path(<<<<"d">>, <<"s">>>>, <<"p">>, "mp4") :> MediaFile("v1"))
      @@ (Path(<<<<"d">>, <<"s">>>>, <<"q">>, "mp4") :> MediaFile("v2"))
      @@ (Path(<<<<"d">>, <<"s">>>>, <<"q">>, "md") :> TextFile(NoteB)) }

\* the meta object of the edit that races: a new step name
RacePatches == { Meta({"stepName"}, <<"r">>, <<>>, <<>>, <<>>, <<>>, <<>>, <<>>, 0) }

InitRace ==
  /\ vault \in RaceVaults
  /\ op = IdleOp
  /\ nops = 0
  /\ vaultPre = vault
  /\ last = NoLast
  /\ scan = IdleScan
  /\ dash = IdleDash
  /\ view = IdleView
  /\ op2 = IdleOp

\* saveMeta(videoPath, meta) is called for a step the dashboard shows
RaceSaveMetaStart ==
  /\ CanStart
  /\ \E videoPath \in Candidates(vault, <<>>), meta \in RacePatches, fail \in BOOLEAN,
        now \in Times :
       LET r == SaveMetaSeg(vault, NewOp("saveMeta", videoPath, meta), fail, now)
       IN /\ vault' = r.vault
          /\ op' = r.op
  /\ nops' = nops + 1
  /\ vaultPre' = vault
  /\ last' = Summary(op)
  /\ scan' = Follow(scan, vault')
  /\ UNCHANGED UiVars

\* deletePath(p) is called for a step the dashboard shows
DeleteStart ==
  /\ CanStart
  /\ \E p \in Candidates(vault, <<>>), fail \in BOOLEAN :
       LET r == DeleteSeg(vault, NewOp("delete", p, NoMeta), fail)
       IN /\ vault' = r.vault
          /\ op' = r.op
  /\ nops' = nops + 1
  /\ vaultPre' = vault
  /\ last' = Summary(op)
  /\ scan' = Follow(scan, vault')
  /\ UNCHANGED UiVars

\* deletePath resumes after the sidecar was trashed
DeleteMedia ==
  /\ op.pc = "trashMedia"
  /\ \E fail \in BOOLEAN :
       LET r == DeleteMediaSeg(vault, op, fail)
       IN /\ vault' = r.vault
          /\ op' = r.op
  /\ UNCHANGED <<nops, vaultPre, last>>
  /\ scan' = Follow(scan, vault')
  /\ UNCHANGED UiVars

\* scanDanceSteps(vault, {}) is called while edits and deletions go on
RaceScanStart ==
  /\ scan.pc \in {"idle", "done"} /\ scan.nscans < MaxRaceScans
  /\ \E files \in Orders(Candidates(vault, <<>>)) :
       scan' = ScanListSeg(scan, vault, <<>>, files)
  /\ UNCHANGED <<vault, op, nops, vaultPre, last, dash, view, op2>>

NextRace ==
  \/ RaceScanStart
  \/ RaceSaveMetaStart
  \/ DeleteStart
  \/ DeleteMedia
  \/ SaveMetaSidecar
  \/ SaveMetaUpsert
  \/ UpsertWrite
  \/ SaveMetaCleanup
  \/ ScanReadDescription
  \/ ScanReadFrontmatter

\* scans whose steps interleave with the steps of saveMeta and deletePath
SpecRace == InitRace /\ [][NextRace]_vars

\* the vaults steps are deleted from: three media files in d/s, each with or
\* without its sidecar
DeleteVaults ==
  { ((Path(<<<<"d">>, <<"s">>>>, <<"p">>, "mp4") :> MediaFile("v1"))
       @@ (Path(<<<<"d">>, <<"s">>>>, <<"q">>, "mp4") :> MediaFile("v2"))
       @@ (Path(<<<<"d">>, <<"s">>>>, <<"r">>, "mov") :> MediaFile("v3")))
      @@ [md \in mds |-> TextFile(NoteB)] :
    mds \in SUBSET { Path(<<<<"d">>, <<"s">>>>, <<b>>, "md") : b \in {"p", "q", "r"} } }

InitDelete ==
  /\ vault \in DeleteVaults
  /\ op = IdleOp
  /\ nops = 0
  /\ vaultPre = vault
  /\ last = NoLast
  /\ scan = IdleScan
  /\ dash = IdleDash
  /\ view = IdleView
  /\ op2 = IdleOp

NextDelete ==
  \/ DeleteStart
  \/ DeleteMedia

\* steps are deleted one after the other, and any trashFile may fail
SpecDelete == InitDelete /\ [][NextDelete]_vars

(***************************************************************************)
(* organizeVideoFile                                                       *)
(***************************************************************************)
\* VIDEO_EXTS of organize.ts
OrganizeExts == {"mp4", "mov", "webm", "m4v", "ogg"}

\* the folder name Dance, the default of libraryRoot
DanceFolder == <<"D", "a", "n", "c", "e">>

\* fm[k] ?? other
OrElse(fm, k, other) ==
  IF FmHas(fm, k) /\ FmGet(fm, k).ty # "null" THEN FmGet(fm, k) ELSE other

\* readSidecarFrontmatter (organize.ts) for the file at p: the frontmatter the
\* metadata cache has of the sidecar, with the basename for a missing step
\* name and "" for the other missing fields
OrganizeMeta(v, p) ==
  LET fm == IF Exists(v, MdPath(p)) THEN ScanFrontmatter(v[MdPath(p)].text).fm ELSE <<>>
  IN << [k |-> "stepName", v |-> OrElse(fm, "stepName", Str(p.base))],
        [k |-> "description", v |-> OrElse(fm, "description", Str(<<>>))],
        [k |-> "class", v |-> OrElse(fm, "class", OrElse(fm, "classLevel", Str(<<>>)))],
        [k |-> "dance", v |-> OrElse(fm, "dance", Str(<<>>))],
        [k |-> "style", v |-> OrElse(fm, "style", Str(<<>>))] >>

\* slug is given a value without trim (a number, a sequence): it throws
SlugThrows(meta) ==
  \E k \in {"dance", "style", "class", "stepName"} : FmGet(meta, k).ty # "str"

\* applyTemplate(folderTpl, ...) cleaned of doubled, leading and trailing
\* slashes, as folder segments; tpl is the list of the template's placeholders,
\* which the template separates by slashes
RelFolder(tpl, meta) ==
  SelectSeq([i \in 1..Len(tpl) |-> slug(FmGet(meta, tpl[i]).s)], LAMBDA seg : seg # <<>>)

\* destPath before uniqueIfExists: root folder, template folder, the slug of
\* the step name or else of the basename, the lower-cased extension
DestPath(p, meta, libraryRoot, tpl) ==
  LET root == IF Trim(libraryRoot) = <<>> THEN DanceFolder ELSE Trim(libraryRoot)
      baseName == IF slug(FmGet(meta, "stepName").s) # <<>>
                    THEN slug(FmGet(meta, "stepName").s)
                    ELSE slug(p.base)
  IN Path(<<root>> \o RelFolder(tpl, meta), baseName, ExtLower(p.ext))

\* the sidecar organizeVideoFile writes
OrganizeSidecar(meta) ==
  <<Delim,
    Kv("stepName", JsString(FmGet(meta, "stepName"))),
    Kv("description", JsString(FmGet(meta, "description"))),
    Kv("class", JsString(FmGet(meta, "class"))),
    Kv("dance", JsString(FmGet(meta, "dance"))),
    Kv("style", JsString(FmGet(meta, "style"))),
    Kv("thumbnail", <<>>), Kv("duration", <<>>), Delim, Empty>>

\* organizeVideoFile from its entry to vault.readBinary: the extension test,
\* the sidecar's fields, the destination (ensureFolder makes folders only)
OrganizeSeg(v, o, libraryRoot, tpl, fail) ==
  LET meta == OrganizeMeta(v, o.videoPath)
  IN IF ExtLower(o.videoPath.ext) \notin OrganizeExts
       THEN [vault |-> v, op |-> [o EXCEPT !.pc = "done"]]
     ELSE IF SlugThrows(meta)
       THEN [vault |-> v, op |-> Thrown(o, "slug")]
     ELSE LET dest == DestPath(o.videoPath, meta, libraryRoot, tpl)
              o2 == [o EXCEPT !.intended = dest, !.finalPath = uniquePath(v, dest),
                              !.read = [NoRead EXCEPT !.fm = meta]]
          IN IF fail
               THEN [vault |-> v, op |-> Thrown(o2, "readBinary")]
               ELSE [vault |-> v,
                     op |-> [o2 EXCEPT !.pc = "copy", !.bin = v[o.videoPath].blob]]

\* organizeVideoFile after the read: vault.createBinary of the copy, which
\* throws when the path is taken ("exists") or for another reason
OrganizeCopySeg(v, o, fail) ==
  IF Exists(v, o.finalPath)
    THEN [vault |-> v, op |-> Thrown(o, "exists")]
  ELSE IF fail
    THEN [vault |-> v, op |-> Thrown(o, "createBinary")]
    ELSE [vault |-> [q \in DOMAIN v \cup {o.finalPath} |->
                       IF q = o.finalPath THEN MediaFile(o.bin) ELSE v[q]],
          op |-> [o EXCEPT !.pc = "newSidecar"]]

\* a mutant of OrganizeSidecarSeg: the destination sidecar is written whether
\* or not there is one
OrganizeSidecarSegOverwrite(v, o, fail) ==
  IF fail
    THEN [vault |-> v, op |-> Thrown([o EXCEPT !.mdPath = MdPath(o.finalPath)], "create")]
    ELSE [vault |-> CreateIn(v, MdPath(o.finalPath), OrganizeSidecar(o.read.fm)),
          op |-> [o EXCEPT !.pc = "done", !.mdPath = MdPath(o.finalPath)]]

\* organizeVideoFile after the copy: vault.create of the destination sidecar
\* when no file has its path, and the return
OrganizeSidecarSeg(v, o, fail) ==
  LET destMd == MdPath(o.finalPath)
  IN IF Exists(v, destMd)
       THEN [vault |-> v, op |-> [o EXCEPT !.pc = "done", !.conflict = TRUE]]
       ELSE IF fail
         THEN [vault |-> v, op |-> Thrown([o EXCEPT !.mdPath = destMd], "create")]
         ELSE [vault |-> CreateIn(v, destMd, OrganizeSidecar(o.read.fm)),
               op |-> [o EXCEPT !.pc = "done", !.mdPath = destMd]]

\* the values of the setting libraryRoot: unset (the default Dance), and d
LibraryRoots == {<<>>, <<"d">>}

\* the values of the setting organizeTemplate, by their placeholders: the
\* default {dance}/{style}/{class}, and {dance}
FolderTemplates == {<<"dance", "style", "class">>, <<"dance">>}

\* the sidecar of a step that names its dance
NoteOrg == <<Delim, Kv("stepName", <<"b">>), Kv("dance", <<"c">>), Delim, Empty>>

\* a sidecar whose step name is a number
NoteNum == <<Delim, Kv("stepName", <<"7">>), Delim, Empty>>

\* the vaults organizeVideoFile is called in: a step in the folder in, whose
\* destination sidecar path Dance/c/b.md has a note; a step that is at its
\* destination already; a file z.avi, a file B.MP4 without sidecar and a step
\* whose sidecar has a number for name
OrganizeVaults ==
  { (Path(<<<<"i", "n">>>>, <<"b">>, "mp4") :> MediaFile("v1"))
      @@ (Path(<<<<"i", "n">>>>, <<"b">>, "md") :> TextFile(NoteOrg))
      @@ (Path(<<DanceFolder, <<"c">>>>, <<"b">>, "md") :> TextFile(NotePlain)),
    (Path(<<DanceFolder, <<"c">>>>, <<"b">>, "mp4") :> MediaFile("v1"))
      @@ (Path(<<DanceFolder, <<"c">>>>, <<"b">>, "md") :> TextFile(NoteOrg)),
    (Path(<<<<"i", "n">>>>, <<"z">>, "avi") :> MediaFile("v2"))
      @@ (Path(<<<<"i", "n">>>>, <<"B">>, "MP4") :> MediaFile("v3"))
      @@ (Path(<<<<"i", "n">>>>, <<"q">>, "mp4") :> MediaFile("v1"))
      @@ (Path(<<<<"i", "n">>>>, <<"q">>, "md") :> TextFile(NoteNum)) }

InitOrganize ==
  /\ vault \in OrganizeVaults
  /\ op = IdleOp
  /\ nops = 0
  /\ vaultPre = vault
  /\ last = NoLast
  /\ scan = IdleScan
  /\ dash = IdleDash
  /\ view = IdleView
  /\ op2 = IdleOp

\* organizeVideoFile(app, file, settings) is called for a file of the vault
\* that is no note
OrganizeStart ==
  /\ CanStart
  /\ \E file \in {p \in DOMAIN vault : p.ext # "md"}, libraryRoot \in LibraryRoots,
        tpl \in FolderTemplates, fail \in BOOLEAN :
       LET r == OrganizeSeg(vault, NewOp("organize", file, NoMeta), libraryRoot, tpl, fail)
       IN /\ vault' = r.vault
          /\ op' = r.op
  /\ nops' = nops + 1
  /\ vaultPre' = vault
  /\ last' = Summary(op)
  /\ scan' = Follow(scan, vault')
  /\ UNCHANGED UiVars

\* organizeVideoFile resumes after the read and creates the copy
OrganizeCopy ==
  /\ op.pc = "copy"
  /\ \E fail \in BOOLEAN :
       LET r == OrganizeCopySeg(vault, op, fail)
       IN /\ vault' = r.vault
          /\ op' = r.op
  /\ UNCHANGED <<nops, vaultPre, last>>
  /\ scan' = Follow(scan, vault')
  /\ UNCHANGED UiVars

\* organizeVideoFile resumes after the copy, sees to the sidecar and returns
OrganizeNewSidecar ==
  /\ op.pc = "newSidecar"
  /\ \E fail \in BOOLEAN :
       LET r == OrganizeSidecarSeg(vault, op, fail)
       IN /\ vault' = r.vault
          /\ op' = r.op
  /\ UNCHANGED <<nops, vaultPre, last>>
  /\ scan' = Follow(scan, vault')
  /\ UNCHANGED UiVars

NextOrganize ==
  \/ OrganizeStart
  \/ OrganizeCopy
  \/ OrganizeNewSidecar

\* calls of organizeVideoFile, one after the other
SpecOrganize == InitOrganize /\ [][NextOrganize]_vars

(***************************************************************************)
(* Two calls of organizeVideoFile in flight                                *)
(***************************************************************************)
\* organizeVideoFile is called while another call may be in flight
Organize2Start ==
  /\ op2.pc \in {"idle", "done"} /\ nops < MaxOps
  /\ \E file \in {p \in DOMAIN vault : p.ext # "md"}, libraryRoot \in LibraryRoots,
        tpl \in FolderTemplates, fail \in BOOLEAN :
       LET r == OrganizeSeg(vault, NewOp("organize", file, NoMeta), libraryRoot, tpl, fail)
       IN /\ vault' = r.vault
          /\ op2' = r.op
  /\ nops' = nops + 1
  /\ UNCHANGED <<op, vaultPre, last, scan, dash, view>>

\* the second call resumes after the read and creates the copy
Organize2Copy ==
  /\ op2.pc = "copy"
  /\ \E fail \in BOOLEAN :
       LET r == OrganizeCopySeg(vault, op2, fail)
       IN /\ vault' = r.vault
          /\ op2' = r.op
  /\ UNCHANGED <<op, nops, vaultPre, last, scan, dash, view>>

\* the second call resumes after the copy, sees to the sidecar and returns
Organize2NewSidecar ==
  /\ op2.pc = "newSidecar"
  /\ \E fail \in BOOLEAN :
       LET r == OrganizeSidecarSeg(vault, op2, fail)
       IN /\ vault' = r.vault
          /\ op2' = r.op
  /\ UNCHANGED <<op, nops, vaultPre, last, scan, dash, view>>

NextCollide ==
  \/ OrganizeStart
  \/ OrganizeCopy
  \/ OrganizeNewSidecar
  \/ Organize2Start
  \/ Organize2Copy
  \/ Organize2NewSidecar

\* calls of organizeVideoFile whose steps interleave
SpecCollide == InitOrganize /\ [][NextCollide]_vars

(***************************************************************************)
(* Edits and plays through the Dashboard                                   *)
(***************************************************************************)
\* what scanDanceSteps returns for vault v when no read fails, the files
\* being listed in the order files
ScanResult(v, files) ==
  SortItems([k \in 1..Len(files) |->
               LET md == MdPath(files[k])
               IN Item(files[k],
                       Started(files[k], <<>>,
                               IF Exists(v, md) THEN SidecarDescription(v[md].text) ELSE Unset),
                       IF Exists(v, md) THEN ScanFrontmatter(v[md].text) ELSE NoFm)])

\* the step ObsidianApp makes of a scanned item: the item has no field
\* style, addedAt is the time of the mapping, playCount is 0
MappedStep(it) ==
  StepItem(it.path, IF it.name # <<>> THEN it.name ELSE it.path.base, it.description.s,
           it.classLevel.s, it.dance.s, <<>>, 1, 0)

\* the meta object onSaveEdit passes to saveMeta for a step: the fields that
\* are defined of stepName, description, dance, style and class
MetaOfStep(st) ==
  Meta({"stepName"} \cup {k \in {"description", "dance", "style", "class"} : st[k] # <<>>},
       st.stepName, st.description, st.dance, st.style, <<>>, st.class, <<>>, 0)

\* what the editor's form is submitted with: every field filled in
FormData ==
  { [stepName |-> <<"r">>, description |-> <<"n">>, class |-> <<"B">>, dance |-> <<"S">>,
     style |-> <<"c">>],
    [stepName |-> <<"p">>, description |-> <<"n">>, class |-> <<"N">>, dance |-> <<"S">>,
     style |-> <<"c">>] }

\* handleSave's setLocalSteps: the step with the editing step's id is
\* replaced, or the updated step is added
ReplaceStep(steps, id, updated) ==
  IF \E i \in 1..Len(steps) : steps[i].id = id
    THEN LET idx == CHOOSE i \in 1..Len(steps) :
                      steps[i].id = id /\ \A j \in 1..(i - 1) : steps[j].id # id
         IN [steps EXCEPT ![idx] = updated]
    ELSE Append(steps, updated)

InitDash ==
  /\ vault \in RaceVaults
  /\ op = IdleOp
  /\ nops = 0
  /\ vaultPre = vault
  /\ last = NoLast
  /\ scan = IdleScan
  /\ \E files \in Orders(Candidates(vault, <<>>)) :
       dash = [IdleDash EXCEPT
                 !.steps = [k \in 1..Len(files) |-> MappedStep(ScanResult(vault, files)[k])]]
  /\ view = IdleView
  /\ op2 = IdleOp

\* handleOpenEdit(step) for a step the Dashboard shows
DashOpenEdit ==
  /\ \E i \in 1..Len(dash.steps) : dash' = [dash EXCEPT !.editing = dash.steps[i]]
  /\ dash'.editing # dash.editing
  /\ UNCHANGED <<vault, op, nops, vaultPre, last, scan, view, op2>>

\* handleSave(data): the local step is updated, and onSaveEdit calls saveMeta
\* with the id of the editing step
DashSave ==
  /\ CanStart
  /\ dash.editing # NoStep
  /\ \E data \in FormData, fail \in BOOLEAN, now \in Times :
       LET updated == [dash.editing EXCEPT !.stepName = data.stepName,
                                           !.description = data.description,
                                           !.class = data.class, !.dance = data.dance,
                                           !.style = data.style]
           r == SaveMetaSeg(vault, NewOp("saveMeta", dash.editing.id, MetaOfStep(updated)),
                            fail, now)
       IN /\ dash' = [dash EXCEPT !.steps = ReplaceStep(@, dash.editing.id, updated)]
          /\ vault' = r.vault
          /\ op' = r.op
  /\ nops' = nops + 1
  /\ vaultPre' = vault
  /\ last' = Summary(op)
  /\ scan' = Follow(scan, vault')
  /\ UNCHANGED <<view, op2>>

\* openViewer(step) for a step the Dashboard shows: the local play count
\* goes up, and onSaveEdit calls saveMeta for the bumped step without await
DashOpenViewer ==
  /\ CanStart
  /\ \E i \in 1..Len(dash.steps), fail \in BOOLEAN, now \in Times :
       LET step == dash.steps[i]
           bumped == [step EXCEPT !.playCount = @ + 1]
           r == SaveMetaSeg(vault, NewOp("saveMeta", step.id, MetaOfStep(bumped)), fail, now)
       IN /\ dash' = [dash EXCEPT
                        !.steps = [j \in 1..Len(@) |->
                                     IF @[j].id = step.id
                                       THEN [@[j] EXCEPT !.playCount = @ + 1] ELSE @[j]],
                        !.viewer = bumped,
                        !.viewerOp = nops + 1]
          /\ vault' = r.vault
          /\ op' = r.op
  /\ nops' = nops + 1
  /\ vaultPre' = vault
  /\ last' = Summary(op)
  /\ scan' = Follow(scan, vault')
  /\ UNCHANGED <<view, op2>>

NextDash ==
  \/ DashOpenEdit
  \/ DashSave
  \/ DashOpenViewer
  \/ SaveMetaSidecar
  \/ SaveMetaUpsert
  \/ UpsertWrite
  \/ SaveMetaCleanup

\* the user edits and plays steps in the Dashboard
SpecDash == InitDash /\ [][NextDash]_vars

(***************************************************************************)
(* The DOM view: refresh, prev, next, goTo                                 *)
(***************************************************************************)
\* number of refresh calls of one behaviour
MaxRefreshes == 2

\* the indices goTo is called with: the library modal gives those of the items
\* it was opened with, which a refresh may have shortened since
GoToInputs == -1..3

\* a mutant of Refreshed: the index is kept whatever the new list
RefreshedKeepIndex(st, items) ==
  [st EXCEPT !.items = items, !.refreshing = FALSE, !.was = st.currentIndex]

\* refresh after scanDanceSteps returned items
Refreshed(st, items) ==
  [st EXCEPT !.items = items,
             !.currentIndex = IF @ >= Len(items) THEN 0 ELSE @,
             !.refreshing = FALSE,
             !.was = st.currentIndex]

\* prev()
PrevOf(st) ==
  IF Len(st.items) = 0 THEN st
  ELSE [st EXCEPT !.currentIndex = (@ - 1 + Len(st.items)) % Len(st.items)]

\* next()
NextOf(st) ==
  IF Len(st.items) = 0 THEN st
  ELSE [st EXCEPT !.currentIndex = (@ + 1) % Len(st.items)]

\* goTo(index)
GoTo(st, index) ==
  IF index < 0 \/ index >= Len(st.items) THEN st
  ELSE [st EXCEPT !.currentIndex = index]

\* the vault the view shows: three media files in d/s without sidecars
ViewVaults == { v \in DeleteVaults : \A q \in DOMAIN v : q.ext # "md" }

InitView ==
  /\ vault \in ViewVaults
  /\ op = IdleOp
  /\ nops = 0
  /\ vaultPre = vault
  /\ last = NoLast
  /\ scan = IdleScan
  /\ dash = IdleDash
  /\ view = IdleView
  /\ op2 = IdleOp

\* refresh() is called (onOpen, or a create or delete event of the vault):
\* scanDanceSteps starts with the setting rootFolder, here empty
ViewRefreshStart ==
  /\ scan.pc \in {"idle", "done"} /\ ~view.refreshing /\ scan.nscans < MaxRefreshes
  /\ \E files \in Orders(Candidates(vault, <<>>)) :
       scan' = ScanListSeg(scan, vault, <<>>, files)
  /\ view' = [view EXCEPT !.refreshing = TRUE]
  /\ UNCHANGED <<vault, op, nops, vaultPre, last, dash, op2>>

\* scanDanceSteps has returned: refresh takes the items and checks the index
ViewRefreshDone ==
  /\ view.refreshing /\ scan.pc = "done"
  /\ view' = Refreshed(view, scan.items)
  /\ UNCHANGED <<vault, op, nops, vaultPre, last, scan, dash, op2>>

\* prev() with items to move in
ViewPrev ==
  /\ view' = PrevOf(view)
  /\ view' # view
  /\ UNCHANGED <<vault, op, nops, vaultPre, last, scan, dash, op2>>

\* next() with items to move in
ViewNext ==
  /\ view' = NextOf(view)
  /\ view' # view
  /\ UNCHANGED <<vault, op, nops, vaultPre, last, scan, dash, op2>>

\* goTo(index) is called with index
ViewGoToAt(index) ==
  /\ view' = GoTo(view, index)
  /\ UNCHANGED <<vault, op, nops, vaultPre, last, scan, dash, op2>>

\* goTo(index) that moves
ViewGoTo ==
  /\ \E index \in GoToInputs : ViewGoToAt(index)
  /\ view' # view

NextView ==
  \/ ViewRefreshStart
  \/ ScanReadDescription
  \/ ScanReadFrontmatter
  \/ ViewRefreshDone
  \/ ViewPrev
  \/ ViewNext
  \/ ViewGoTo
  \/ DeleteStart

\* the view is refreshed and moved in while steps are deleted (without a
\* sidecar deletePath makes one call of trashFile)
SpecView == InitView /\ [][NextView]_vars

(***************************************************************************)
(* The Dashboard's search, filters and sort                                *)
(***************************************************************************)
\* the steps the Dashboard is given: two of one name in different folders,
\* two added at the same time and played equally often, one without class,
\* one without dance, one without style
StepA == StepItem(Path(<<<<"d">>>>, <<"a">>, "mp4"), <<"a">>, <<>>, <<"B">>, <<"S">>, <<>>, 1, 2)

StepB == StepItem(Path(<<<<"d">>>>, <<"b">>, "mp4"), <<"b">>, <<"n">>, <<>>, <<"S">>, <<"c">>, 1, 2)

StepA2 == StepItem(Path(<<<<"e">>>>, <<"a">>, "mp4"), <<"a">>, <<>>, <<"N">>, <<>>, <<"c">>, 2, 0)

StepLists == Orders({StepA, StepB, StepA2}) \cup Orders({StepA, StepB})

\* the texts typed into the search field
Queries == {<<>>, <<"A">>, <<"c">>, <<" ", "s", " ">>}

SortModes == {"az", "recent", "mostPlayed"}

\* getUniqueValues(steps): the values the filter drawer offers for a facet
UniqueValues(steps, facet) ==
  {steps[i][facet] : i \in 1..Len(steps)} \ {<<>>}

InitFilter ==
  /\ vault = <<>>
  /\ op = IdleOp
  /\ nops = 0
  /\ vaultPre = vault
  /\ last = NoLast
  /\ scan = IdleScan
  /\ dash \in {[IdleDash EXCEPT !.steps = steps] : steps \in StepLists}
  /\ view = IdleView
  /\ op2 = IdleOp

\* handleSearchChange(value)
SearchChange ==
  /\ \E value \in Queries : dash' = [dash EXCEPT !.query = value]
  /\ UNCHANGED <<vault, op, nops, vaultPre, last, scan, view, op2>>

\* handleClassToggle(className)
ClassToggle ==
  /\ \E className \in UniqueValues(dash.steps, "class") :
       dash' = [dash EXCEPT !.filters.classes = Toggle(@, className)]
  /\ UNCHANGED <<vault, op, nops, vaultPre, last, scan, view, op2>>

\* handleDanceToggle(dance)
DanceToggle ==
  /\ \E dance \in UniqueValues(dash.steps, "dance") :
       dash' = [dash EXCEPT !.filters.dances = Toggle(@, dance)]
  /\ UNCHANGED <<vault, op, nops, vaultPre, last, scan, view, op2>>

\* handleStyleToggle(style)
StyleToggle ==
  /\ \E style \in UniqueValues(dash.steps, "style") :
       dash' = [dash EXCEPT !.filters.styles = Toggle(@, style)]
  /\ UNCHANGED <<vault, op, nops, vaultPre, last, scan, view, op2>>

\* the sort select of the filter drawer
SortChange ==
  /\ \E sort \in SortModes : dash' = [dash EXCEPT !.filters.sort = sort]
  /\ UNCHANGED <<vault, op, nops, vaultPre, last, scan, view, op2>>

NextFilter ==
  \/ SearchChange
  \/ ClassToggle
  \/ DanceToggle
  \/ StyleToggle
  \/ SortChange

\* the user searches, filters and sorts the steps of the Dashboard
SpecFilter == InitFilter /\ [][NextFilter]_vars

(***************************************************************************)
(* Properties                                                              *)
(***************************************************************************)
\* the call in op has returned
Done == op.pc = "done"

\* ... and no vault call of it threw
Clean == Done /\ ~op.failed /\ op.fails = {}

\* the call was given an existing media file that had a sidecar
HadSidecar == Exists(vaultPre, op.videoPath) /\ Exists(vaultPre, MdPath(op.videoPath))

\* C1: when saveMeta renames the media file and the target sidecar name is
\* taken, the old sidecar is still there with its original content after the
\* call (taken here for calls none of whose vault calls throws).
C1_OldSidecarKeptOnConflict ==
  (Clean /\ op.kind = "saveMeta" /\ op.finalPath # op.videoPath /\ op.conflict)
    => /\ Exists(vault, MdPath(op.videoPath))
       /\ vault[MdPath(op.videoPath)] = vaultPre[MdPath(op.videoPath)]

C3_SecondSaveKeepsPath ==
  (Clean /\ op.kind = "saveMeta" /\ last.valid /\ last.kind = "saveMeta" /\ last.clean
     /\ op.meta = last.meta /\ op.videoPath = last.finalPath
     /\ Exists(vaultPre, op.videoPath) /\ slug(Desired(op.meta)) # <<>>)
    => op.finalPath = op.videoPath

\* C4: upsertSidecarMetadata called twice in a row with the same meta on the
\* same media file leaves the sidecar text of the first call unchanged.
C4_SecondUpsertSameText ==
  (Clean /\ op.kind = "upsert" /\ last.valid /\ last.kind = "upsert" /\ last.clean
     /\ op.meta = last.meta /\ op.videoPath = last.finalPath
     /\ Exists(vaultPre, op.videoPath))
    => /\ Exists(vault, MdPath(op.videoPath))
       /\ Exists(vaultPre, MdPath(op.videoPath))
       /\ vault[MdPath(op.videoPath)].text = vaultPre[MdPath(op.videoPath)].text

\* the keys of SidecarFM (repo.ts): the fields upsertSidecarMetadata manages
Recognized ==
  {"stepName", "description", "dance", "style", "danceStyle", "class", "classLevel",
   "playCount", "lastPlayedAt", "tags"}

\* the unrecognized keys of a sidecar text, with their parsed values
Unrecognized(text) ==
  LET fm == ScanFrontmatter(text).fm
  IN {<<fm[i].k, fm[i].v>> : i \in {j \in 1..Len(fm) : fm[j].k \notin Recognized}}

\* C5: a call of saveMeta / upsertSidecarMetadata, renaming or not, leaves the
\* unrecognized keys of the media file's sidecar and their values as they were.
C5_UnrecognizedKept ==
  (Clean /\ HadSidecar)
    => /\ Exists(vault, MdPath(op.finalPath))
       /\ Unrecognized(vault[MdPath(op.finalPath)].text)
            = Unrecognized(vaultPre[MdPath(op.videoPath)].text)

\* C6: after upsertSidecarMetadata applied a class value, both class and
\* classLevel hold it and the scan reads it back as the category; the same for
\* a style value with style and danceStyle (taken here for a media file that
\* had a sidecar).
C6_AliasReadBack ==
  (Clean /\ op.kind = "upsert" /\ HadSidecar)
    => LET r == ScanFrontmatter(vault[MdPath(op.finalPath)].text)
       IN /\ "class" \in op.meta.keys
               => /\ FmIsStr(r.fm, "class") /\ FmGet(r.fm, "class").s = op.meta.class
                  /\ FmIsStr(r.fm, "classLevel") /\ FmGet(r.fm, "classLevel").s = op.meta.class
                  /\ ScanClassLevel(r, Unset) = Val(op.meta.class)
          /\ "danceStyle" \in op.meta.keys
               => /\ FmIsStr(r.fm, "style") /\ FmGet(r.fm, "style").s = op.meta.danceStyle
                  /\ FmIsStr(r.fm, "danceStyle") /\ FmGet(r.fm, "danceStyle").s = op.meta.danceStyle
                  /\ ScanDanceStyle(r, Unset) = Val(op.meta.danceStyle)

\* the largest suffix number a vault with the files of v can make uniquePath try
MaxSuffix(v) == Cardinality(DOMAIN v) + 3

\* path q is one of full, full 2, full 3, ...
InFamily(full, q, v) == q = full \/ \E i \in 2..MaxSuffix(v) : q = Candidate(full, i)

\* the place of path d among full, full 2, full 3, ...
SuffixIndex(full, d, v) ==
  IF d = full THEN 1 ELSE CHOOSE i \in 2..MaxSuffix(v) : d = Candidate(full, i)

C8_Case ==
  /\ Clean /\ op.kind = "saveMeta" /\ Desired(op.meta) # <<>>
  /\ Exists(vaultPre, op.videoPath)
  /\ slug(Desired(op.meta)) # op.videoPath.base
  /\ ~Exists(vaultPre, Path(op.videoPath.dir, slug(Desired(op.meta)), op.videoPath.ext))
  /\ ~Exists(vaultPre, Path(op.videoPath.dir, slug(Desired(op.meta)), "md"))

\* what C8 says of the vault after the call
C8_Synchronized ==
  LET media == Path(op.videoPath.dir, slug(Desired(op.meta)), op.videoPath.ext)
      md == Path(op.videoPath.dir, slug(Desired(op.meta)), "md")
  IN /\ Exists(vault, media) /\ vault[media] = vaultPre[op.videoPath]
     /\ op.finalPath = media
     /\ Exists(vault, md)
     /\ StartsWithDelim(vault[md].text)
     /\ \E i \in 2..(ClosingDelim(vault[md].text) - 1) :
          vault[md].text[i] = Kv("stepName", op.meta.stepName)
     /\ ~Exists(vault, op.videoPath)
     /\ ~Exists(vault, MdPath(op.videoPath))

\* C8 as stated: after a successful saveMeta whose step name's slug differs
\* from the basename and whose target names are free, media file and sidecar
\* are at <slug>.<ext> and <slug>.md, the sidecar's frontmatter has the line
\* stepName: <patch value>, and nothing is left at the old paths.
C8_RenameSynchronizedAnySlug == C8_Case => C8_Synchronized

\* C8 amended: the same for a step name whose slug is not empty (for an empty
\* slug saveMeta names the file video-<Date.now()>).
C8_RenameSynchronized ==
  (C8_Case /\ slug(Desired(op.meta)) # <<>>) => C8_Synchronized

\* C8 witness: such a call on a media file with a sidecar, whose step name is
\* not its own slug
C8_Witness ==
  C8_Case /\ slug(Desired(op.meta)) # <<>> /\ HadSidecar
    /\ slug(Desired(op.meta)) # Desired(op.meta)

\* C9: a call whose path is no existing file changes no file and raises no
\* error.
C9_MissingIsNoop ==
  (Done /\ ~Exists(vaultPre, op.videoPath)) => (vault = vaultPre /\ ~op.failed)

\* C9 witness: saveMeta with a step name has returned for such a path
C9_Witness ==
  Done /\ op.kind = "saveMeta" /\ ~Exists(vaultPre, op.videoPath)
    /\ Desired(op.meta) # <<>>

Sidecars(v) == {p \in DOMAIN v : p.ext = "md"}

\* C11: in a saveMeta that renames, the media file is renamed first, then the
\* sidecar, and only then is a sidecar written: while the call is suspended
\* after the media rename no sidecar has changed, while it is suspended after
\* the sidecar rename no sidecar text has been written, and at each of these
\* points the text of the sidecar the media file had is in the vault under
\* the old or the new sidecar name.
C11_OrderedCrashSafe ==
  (op.kind = "saveMeta" /\ op.finalPath # op.videoPath
     /\ op.pc \in {"sidecar", "upsert", "write"})
    => /\ Exists(vault, op.finalPath) /\ ~Exists(vault, op.videoPath)
       /\ vault[op.finalPath] = vaultPre[op.videoPath]
       /\ op.pc = "sidecar"
            => \A p \in Sidecars(vaultPre) : Exists(vault, p) /\ vault[p] = vaultPre[p]
       /\ \A p \in Sidecars(vault) : \E q \in Sidecars(vaultPre) : vault[p] = vaultPre[q]
       /\ HadSidecar
            => \E p \in {MdPath(op.videoPath), MdPath(op.finalPath)} :
                 Exists(vault, p) /\ vault[p] = vaultPre[MdPath(op.videoPath)]

\* C11 witness: the call is suspended after it renamed the media file and then
\* its sidecar, before the write
C11_Witness ==
  /\ op.kind = "saveMeta" /\ op.pc = "upsert" /\ HadSidecar
  /\ op.finalPath # op.videoPath
  /\ ~Exists(vault, MdPath(op.videoPath))
  /\ Exists(vault, MdPath(op.finalPath))

\* the body of a sidecar text: what follows the closing --- of its frontmatter
\* block, the whole text when it has no such block
BodyOf(text) ==
  IF StartsWithDelim(text) /\ ClosingDelim(text) > 0
    THEN SubSeq(text, ClosingDelim(text) + 1, Len(text))
    ELSE text

\* the lines of a body that are not empty
NonEmptyLines(body) == SelectSeq(body, LAMBDA l : l.t # "empty")

\* the dance value of a sidecar text, empty when it has none
DanceOf(text) ==
  LET fm == ScanFrontmatter(text).fm
  IN IF FmIsStr(fm, "dance") THEN FmGet(fm, "dance").s ELSE <<>>

\* the tag of a managed hashtag line in lower case (tags do not tell case)
LowerTag(ln) == [i \in 1..Len(ln.v) |-> ToLower(ln.v[i])]

\* C12: after a call that wrote the sidecar, the first line of the body is the
\* managed hashtag line, #DanceLibrary followed by # and the slug of the dance
\* value (letter case aside) when there is one, and the body has exactly one
\* managed hashtag line.
C12_OneManagedLine ==
  (Clean /\ Exists(vaultPre, op.videoPath) /\ Exists(vault, MdPath(op.finalPath)))
    => LET text == vault[MdPath(op.finalPath)].text
           body == BodyOf(text)
       IN /\ NonEmptyLines(body) # <<>>
          /\ IsTagLine(NonEmptyLines(body)[1])
          /\ LowerTag(NonEmptyLines(body)[1]) = slug(DanceOf(text))
          /\ Cardinality({i \in 1..Len(body) : IsTagLine(body[i])}) = 1

\* sequence a is the end of sequence b
IsSuffix(a, b) == Len(a) <= Len(b) /\ SubSeq(b, Len(b) - Len(a) + 1, Len(b)) = a

\* the non-empty lines of a body below its managed first line
BelowManaged(body) ==
  LET ls == NonEmptyLines(body)
  IN IF ls # <<>> /\ IsTagLine(ls[1]) THEN Tail(ls) ELSE ls

\* C13: upsertSidecarMetadata on a media file with a sidecar, no vault call
\* throwing, leaves every body line below the managed first line in the
\* sidecar, with the same text and in the same order.
C13_BodyKept ==
  (Clean /\ op.kind = "upsert" /\ HadSidecar)
    => /\ Exists(vault, MdPath(op.videoPath))
       /\ IsSuffix(BelowManaged(BodyOf(vaultPre[MdPath(op.videoPath)].text)),
                   BelowManaged(BodyOf(vault[MdPath(op.videoPath)].text)))

\* the frontmatter block of the text is not closed, or is no YAML
Unparseable(text) ==
  /\ StartsWithDelim(text)
  /\ \/ ClosingDelim(text) = 0
     \/ parseYaml(SubSeq(text, 2, ClosingDelim(text) - 1)).threw

\* C14: upsertSidecarMetadata on a sidecar whose frontmatter cannot be parsed
\* does not throw, and the rewritten sidecar's body ends with the whole
\* original text.
C14_UnparsedKeptAsBody ==
  (Done /\ op.kind = "upsert" /\ op.fails = {} /\ HadSidecar
     /\ Unparseable(vaultPre[MdPath(op.videoPath)].text))
    => /\ ~op.failed
       /\ Exists(vault, MdPath(op.videoPath))
       /\ IsSuffix(vaultPre[MdPath(op.videoPath)].text,
                   BodyOf(vault[MdPath(op.videoPath)].text))

\* the scan in scan has returned
ScanDone == scan.pc = "done"

\* C15: the list a scan returns is strictly ascending by path, and a scan
\* without failing read returns the list the scan before it returned for the
\* same root folder, whatever the order in which the files were enumerated.
C15_SortedAndRepeatable ==
  ScanDone
    => /\ \A k \in 1..(Len(scan.items) - 1) :
            localeCompare(PathStr(scan.items[k].path), PathStr(scan.items[k + 1].path)) < 0
       /\ (scan.fails = {} /\ scan.prev.valid /\ scan.prev.root = scan.root)
            => scan.items = scan.prev.items

\* the media extension allow-list as the specification gives it
MediaAllowList == {"mp4", "webm", "mov", "m4v", "ogg"}

\* C16: a scan returns one item for each file whose lower-cased extension is
\* in the allow-list mp4, webm, mov, m4v, ogg and whose path starts with the
\* root prefix, and no other item.
C16_ExactlyTheMediaFiles ==
  ScanDone
    => LET wanted == {p \in DOMAIN vault :
                        /\ ExtLower(p.ext) \in MediaAllowList
                        /\ StartsWith(PathStr(p), AllowedPrefix(scan.root))}
       IN /\ {scan.items[k].path : k \in 1..Len(scan.items)} = wanted
          /\ Len(scan.items) = Cardinality(wanted)

\* the folder segments of path p below the root folder
RelDir(p, rootFolder) ==
  IF Trim(rootFolder) = <<>> THEN p.dir
  ELSE SubSeq(p.dir, Len(SplitOn(normalizePath(Trim(rootFolder)), "/")) + 1, Len(p.dir))

\* the k-th folder segment below the root folder, when there is one
SegmentValue(p, rootFolder, k) ==
  IF Len(RelDir(p, rootFolder)) >= k THEN Val(RelDir(p, rootFolder)[k]) ELSE Unset

\* what readSidecarFrontmatter gives for the file at p in the vault
FmAt(p) ==
  IF Exists(vault, MdPath(p)) THEN ScanFrontmatter(vault[MdPath(p)].text) ELSE NoFm

\* C17: of a scan without failing read, each item's name, dance, style and
\* class slot holds the sidecar's value when that is a non-empty string, and
\* else the basename and the first, second and third folder segment below the
\* root folder.
C17_SlotsFromSidecarOrPath ==
  (ScanDone /\ scan.fails = {})
    => \A k \in 1..Len(scan.items) :
         LET it == scan.items[k]
             r == FmAt(it.path)
         IN /\ it.name = Override(r, "stepName", Val(it.path.base)).s
            /\ it.dance = Override(r, "dance", SegmentValue(it.path, scan.root, 1))
            /\ it.danceStyle = ScanDanceStyle(r, SegmentValue(it.path, scan.root, 2))
            /\ it.classLevel = ScanClassLevel(r, SegmentValue(it.path, scan.root, 3))

\* the item the scan returned for its k-th candidate
ItemOfCandidate(k) ==
  LET p == scan.paths[scan.files[k]]
  IN scan.items[CHOOSE j \in 1..Len(scan.items) : scan.items[j].path = p]

\* the item of a candidate none of whose sidecar fields is set
Bare(it) ==
  /\ it.name = it.path.base
  /\ it.description = Unset
  /\ it.dance = Inferred(it.path, scan.root, 1)
  /\ it.danceStyle = Inferred(it.path, scan.root, 2)
  /\ it.classLevel = Inferred(it.path, scan.root, 3)
  /\ ~it.playCount.set

\* the item of a candidate as its sidecar gives it when every read succeeds
Unharmed(it) ==
  LET md == MdPath(it.path)
      description == IF Exists(vault, md) THEN SidecarDescription(vault[md].text) ELSE Unset
  IN it = Item(it.path, Started(it.path, scan.root, description), FmAt(it.path))

\* parseYaml throws on the frontmatter block of the text
ParseThrows(text) ==
  /\ StartsWithDelim(text)
  /\ ClosingDelim(text) > 0
  /\ parseYaml(SubSeq(text, 2, ClosingDelim(text) - 1)).threw

\* C18: a scan returns one item for every candidate whichever reads throw;
\* the item of a candidate whose sidecar could not be read or parsed has no
\* sidecar field set, and the item of a candidate whose reads succeeded is
\* what it is without any failure.
C18_ReadFailureIsolated ==
  ScanDone
    => /\ Len(scan.items) = Len(scan.files)
       /\ \A k \in 1..Len(scan.files) :
            LET it == ItemOfCandidate(k)
                md == MdPath(it.path)
            IN /\ ({<<k, "desc">>, <<k, "fm">>} \subseteq scan.fails
                      \/ (Exists(vault, md) /\ ParseThrows(vault[md].text)))
                    => Bare(it)
               /\ (<<k, "desc">> \notin scan.fails /\ <<k, "fm">> \notin scan.fails)
                    => Unharmed(it)

\* C18 witness: both reads of one candidate's sidecar threw, and the other
\* candidate's item has the class of its sidecar
C18_Witness ==
  /\ ScanDone /\ Len(scan.files) = 2
  /\ \E k \in 1..2 : {<<k, "desc">>, <<k, "fm">>} = scan.fails
  /\ \E j \in 1..2 : scan.items[j].classLevel = Val(<<"B">>)

\* C19: a scan beside which saveMeta renames or deletePath removes candidates
\* returns, and when it returns each of its items has a path at which the
\* vault has a media file.
C19_VanishedWithdrawn ==
  [][(scan.pc # "done" /\ scan'.pc = "done")
       => \A k \in 1..Len(scan'.items) :
            Exists(vault', scan'.items[k].path) /\ isVideo(scan'.items[k].path)]_vars

\* C20: while and after organizeVideoFile runs, every file the vault had when
\* it was called is there with the content it had: the source media file and
\* its sidecar, and a sidecar that was at the destination sidecar path.
C20_OnlyCreates ==
  op.kind = "organize"
    => \A p \in DOMAIN vaultPre : Exists(vault, p) /\ vault[p] = vaultPre[p]

\* C20 witness: the call copied a media file that has a sidecar to a free
\* path whose sidecar path had a file, and returned
C20_Witness ==
  /\ Done /\ op.kind = "organize" /\ ~op.failed
  /\ Exists(vaultPre, MdPath(op.videoPath))
  /\ ~Exists(vaultPre, op.finalPath)
  /\ Exists(vault, op.finalPath) /\ vault[op.finalPath].blob = vaultPre[op.videoPath].blob
  /\ Exists(vaultPre, MdPath(op.finalPath))
  /\ vaultPre[MdPath(op.finalPath)] # TextFile(OrganizeSidecar(op.read.fm))

\* the allowed list lets the facet value pass: it is empty, or the value is
\* set and in it
FacetPasses(allowed, value) ==
  allowed = <<>> \/ (value # <<>> /\ \E i \in 1..Len(allowed) : allowed[i] = value)

\* the search text, trimmed, in lower case is part of the step's fields in lower case
SearchPasses(st) ==
  LET q == LowerStr(Trim(dash.query))
      text == LowerStr(st.stepName \o <<" ">> \o st.description \o <<" ">> \o st.dance
                         \o <<" ">> \o st.style \o <<" ">> \o st.class)
  IN q = <<>> \/ \E i \in 1..Len(text), j \in 1..Len(text) : SubSeq(text, i, j) = q

\* the positions of the steps that pass the search and the three facets
Passing ==
  {i \in 1..Len(dash.steps) :
     /\ SearchPasses(dash.steps[i])
     /\ FacetPasses(dash.filters.classes, dash.steps[i].class)
     /\ FacetPasses(dash.filters.dances, dash.steps[i].dance)
     /\ FacetPasses(dash.filters.styles, dash.steps[i].style)}

\* C21: filterAndSortSteps returns exactly the steps that pass the search and,
\* for each of class, dance and style, have the facet set to a member of the
\* allowed list or meet an empty allowed list.
C21_FacetFilter ==
  /\ Len(Shown) = Cardinality(Passing)
  /\ \A i \in 1..Len(dash.steps) :
       (i \in Passing) <=> (\E j \in 1..Len(Shown) : Shown[j] = dash.steps[i])

\* C21 witness: a class is required, and a step without class is left out
\* while one of that class is shown
C21_Witness ==
  /\ Len(dash.filters.classes) = 1
  /\ \E i \in 1..Len(dash.steps) : dash.steps[i].class = <<>>
  /\ Len(Shown) = 1 /\ Shown[1].class = dash.filters.classes[1]

\* the filters with value x allowed in addition for the facet list named f
WithAllowed(f, x) == [dash.filters EXCEPT ![f] = Append(@, x)]

\* the facet lists and the values the drawer offers for them
FacetOf == [classes |-> "class", dances |-> "dance", styles |-> "style"]

\* without search text and without allowed values, exactly the given steps
\* are returned
AllWhenUnconstrained ==
  (Trim(dash.query) = <<>> /\ dash.filters.classes = <<>> /\ dash.filters.dances = <<>>
     /\ dash.filters.styles = <<>>)
    => /\ Len(Shown) = Len(dash.steps)
       /\ \A i \in 1..Len(dash.steps) : \E j \in 1..Len(Shown) : Shown[j] = dash.steps[i]

\* C22 as stated: allowing one more value for a facet never makes
\* filterAndSortSteps return more steps, and without search text and allowed
\* values it returns exactly the given steps.
C22_ToggleOnNeverMore ==
  /\ \A f \in DOMAIN FacetOf :
       \A x \in UniqueValues(dash.steps, FacetOf[f]) :
         ~InList(dash.filters[f], x)
           => Len(filterAndSortSteps(dash.steps, dash.query, WithAllowed(f, x))) <= Len(Shown)
  /\ AllWhenUnconstrained

\* C22 amended: allowing a value for a facet that had no allowed value never
\* makes filterAndSortSteps return more steps, and without search text and
\* allowed values it returns exactly the given steps.
C22_ConstrainingNeverMore ==
  /\ \A f \in DOMAIN FacetOf :
       \A x \in UniqueValues(dash.steps, FacetOf[f]) :
         dash.filters[f] = <<>>
           => Len(filterAndSortSteps(dash.steps, dash.query, WithAllowed(f, x))) <= Len(Shown)
  /\ AllWhenUnconstrained

\* C22 witness: one class is allowed, fewer steps are shown than are given,
\* and allowing the other class too would show more
C22_Witness ==
  /\ Len(dash.filters.classes) = 1 /\ Len(Shown) < Len(dash.steps)
  /\ \E x \in UniqueValues(dash.steps, "class") :
       Len(filterAndSortSteps(dash.steps, dash.query, WithAllowed("classes", x))) > Len(Shown)

\* the order of two adjacent steps of the result is the one of the sort mode
InModeOrder(sort, a, b) ==
  CASE sort = "az" -> localeCompare(a.stepName, b.stepName) <= 0
    [] sort = "recent" ->
         \/ a.addedAt > b.addedAt
         \/ a.addedAt = b.addedAt /\ localeCompare(a.stepName, b.stepName) >= 0
    [] sort = "mostPlayed" ->
         \/ a.playCount > b.playCount
         \/ a.playCount = b.playCount /\ localeCompare(a.stepName, b.stepName) <= 0

\* C23: each adjacent pair of the result of filterAndSortSteps is in the
\* order of the sort mode: az by name ascending; recent by addedAt
\* descending, then name descending; mostPlayed by playCount descending, then
\* name ascending.
C23_SortedPerMode ==
  \A k \in 1..(Len(Shown) - 1) : InModeOrder(dash.filters.sort, Shown[k], Shown[k + 1])

\* C23 witness: sorted by recent, two steps added at the same time are shown
\* with the later name first
C23_Witness ==
  /\ dash.filters.sort = "recent"
  /\ \E k \in 1..(Len(Shown) - 1) :
       /\ Shown[k].addedAt = Shown[k + 1].addedAt
       /\ localeCompare(Shown[k].stepName, Shown[k + 1].stepName) > 0

\* C24: filterAndSortSteps returns the same list for the given steps in any
\* order.
C24_OrderIndependent ==
  \A steps \in Orders({dash.steps[i] : i \in 1..Len(dash.steps)}) :
    filterAndSortSteps(steps, dash.query, dash.filters) = Shown

\* C25: each item a scan returns has a play count, a natural number; it is 0
\* when the sidecar has no number for it.
C25_PlayCountNatural ==
  ScanDone
    => \A k \in 1..Len(scan.items) :
         /\ scan.items[k].playCount.set
         /\ scan.items[k].playCount.n \in Nat
         /\ (FmAt(scan.items[k].path).isNull \/ ~FmHas(FmAt(scan.items[k].path).fm, "playCount"))
              => scan.items[k].playCount.n = 0

\* C26: no call of organizeVideoFile fails because the destination it chose
\* is taken, whether or not another call is in flight.
C26_CollisionNeverFails ==
  "exists" \notin op.fails /\ "exists" \notin op2.fails

\* C27: when no call is in flight, the id of every step the Dashboard holds
\* is the path of a media file of the vault.
C27_IdsAreFiles ==
  op.pc \in {"idle", "done"}
    => \A i \in 1..Len(dash.steps) :
         Exists(vault, dash.steps[i].id) /\ isVideo(dash.steps[i].id)

\* C28: when the call that openViewer started has returned without a failed
\* vault call, the sidecar of the step holds the play count the viewer shows.
C28_PlayCountPersisted ==
  (Done /\ Clean /\ nops > 0 /\ dash.viewerOp = nops)
    => /\ Exists(vault, MdPath(op.finalPath))
       /\ ScanPlayCount(ScanFrontmatter(vault[MdPath(op.finalPath)].text))
            = [set |-> TRUE, n |-> dash.viewer.playCount]

\* C29: deletePath never leaves the sidecar of a media file it has removed,
\* whichever trashFile fails, and after a deletePath none of whose calls
\* failed neither the media file nor its sidecar is in the vault.
C29_SidecarGoesFirst ==
  op.kind = "delete"
    => /\ (Exists(vaultPre, op.videoPath) /\ ~Exists(vault, op.videoPath))
            => ~Exists(vault, MdPath(op.videoPath))
       /\ Clean => (~Exists(vault, op.videoPath) /\ ~Exists(vault, MdPath(op.videoPath)))

\* a deletePath of a step that had a sidecar has removed both files
C29_Witness ==
  /\ op.kind = "delete"
  /\ Clean
  /\ Exists(vaultPre, op.videoPath) /\ Exists(vaultPre, MdPath(op.videoPath))
  /\ ~Exists(vault, op.videoPath) /\ ~Exists(vault, MdPath(op.videoPath))

\* the index is 0 without items and an index of the list otherwise
IndexInRange ==
  IF Len(view.items) = 0 THEN view.currentIndex = 0
  ELSE view.currentIndex \in 0..(Len(view.items) - 1)

\* prev and next move by one and wrap at the ends of the list, and goTo
\* with an index outside the list leaves the index
NavigationWraps ==
  /\ ViewPrev => view'.currentIndex =
                   IF view.currentIndex = 0 THEN Len(view.items) - 1
                   ELSE view.currentIndex - 1
  /\ ViewNext => view'.currentIndex =
                   IF view.currentIndex = Len(view.items) - 1 THEN 0
                   ELSE view.currentIndex + 1
  /\ \A index \in GoToInputs :
       (ViewGoToAt(index) /\ (index < 0 \/ index >= Len(view.items)))
         => view'.currentIndex = view.currentIndex

\* C30: after any sequence of refresh, prev, next and goTo the index of the
\* view is 0 when there are no items and otherwise an index of the item
\* list; prev and next wrap around, and goTo outside the list changes nothing.
C30_IndexInRange == [][IndexInRange' /\ NavigationWraps]_vars

\* a refresh has returned a list shorter than the index it found, and the
\* index is at the start again
C30_Witness ==
  /\ ~view.refreshing
  /\ Len(view.items) = 2
  /\ view.was = 2
  /\ view.currentIndex = 0

====
